---- MODULE Spec2Model ----
(***************************************************************************)
(* Model of the chess Board aggregate (mailbox, piece bitboards, colour    *)
(* occupancy bitboards, Zobrist hash, packed score accumulators, state     *)
(* flags, history stack) and of its make/unmake operations.                *)
(*                                                                         *)
(* Conventions                                                             *)
(*  - a u64 bitboard is the set of its set bit positions (0..63); & | ~    *)
(*    become set intersection, union and difference;                       *)
(*  - the Zobrist random numbers are modelled as independent tokens: a     *)
(*    hash is the set of tokens XOR-ed an odd number of times, and XOR is  *)
(*    symmetric difference;                                                *)
(*  - i16 fields wrap modulo 2^16 (ToI16);                                 *)
(*  - a 0-based array a of the source is the tuple items with a[i] read as *)
(*    items[i + 1].                                                        *)
(***************************************************************************)
EXTENDS Integers, Sequences, FiniteSets, TLC

\* ------------------------------------------------------------------------
\* Bounds of the model
\* ------------------------------------------------------------------------

\* Maximum number of moves (performMove / performNullMove) not yet undone.
MaxPly == 3

\* ------------------------------------------------------------------------
\* Program constants
\* ------------------------------------------------------------------------

BLACK == -1
WHITE == 1
EMPTY == 0

PAWN == 1
KNIGHT == 2
BISHOP == 3
ROOK == 4
QUEEN == 5
KING == 6

WHITE_KING_START == 60
BLACK_KING_START == 4

WHITE_QUEEN_SIDE_ROOK_START == 56
WHITE_KING_SIDE_ROOK_START == 63
BLACK_QUEEN_SIDE_ROOK_START == 0
BLACK_KING_SIDE_ROOK_START == 7

WHITE_PAWNS_BASELINE_START == 48
BLACK_PAWNS_BASELINE_START == 8

WHITE_ENPASSANT_LINE_START == 16
WHITE_ENPASSANT_LINE_END == 23
BLACK_ENPASSANT_LINE_START == 40
BLACK_ENPASSANT_LINE_END == 47

HALFMOVE_CLOCK_INDEX == 64
HALFMOVE_COUNT_INDEX == 65
STATE_INDEX == 66

\* 1 << 31 evaluated as an i32: -2147483648
EN_PASSANT_BIT == (-2147483647) - 1

WHITE_KING_SIDE_CASTLING == 128
BLACK_KING_SIDE_CASTLING == 256
WHITE_QUEEN_SIDE_CASTLING == 512
BLACK_QUEEN_SIDE_CASTLING == 1024
WHITE_HAS_CASTLED == 2048
BLACK_HAS_CASTLED == 4096

CASTLING_BITSTART == 7

ALL_CASTLING_RIGHTS ==
  WHITE_KING_SIDE_CASTLING + WHITE_QUEEN_SIDE_CASTLING
    + BLACK_KING_SIDE_CASTLING + BLACK_QUEEN_SIDE_CASTLING

EN_PASSANT_BITSTART == 13

BITS == <<13, 14, 15, 16, 17, 18, 19, 20, 21, 22, 23, 24, 25, 26, 27, 28>>

Squares == 0..63

\* ------------------------------------------------------------------------
\* Integer helpers
\* ------------------------------------------------------------------------

Pow2(n) == 2 ^ n

\* i16(x): two's complement wrap-around of a 16 bit signed integer
ToI16(x) ==
  LET m == x % 65536
  IN  IF m >= 32768 THEN m - 65536 ELSE m

abs(x) == IF x < 0 THEN -x ELSE x

sign(x) == IF x > 0 THEN 1 ELSE IF x < 0 THEN -1 ELSE 0

\* (x & mask) != 0 for a one-bit mask and a non-negative x
HasBit(x, mask) == (x \div mask) % 2 = 1

\* x | mask for a one-bit mask
OrBit(x, mask) == IF HasBit(x, mask) THEN x ELSE x + mask

\* x & ~mask for a one-bit mask
AndNotBit(x, mask) == IF HasBit(x, mask) THEN x - mask ELSE x

\* count trailing zeros of a positive integer
ctz(x) == CHOOSE k \in 0..31 : (x \div Pow2(k)) % 2 = 1 /\ x % Pow2(k) = 0

\* lowest set bit of a non-empty bitboard
ctzBB(bb) == CHOOSE s \in bb : \A t \in bb : s <= t

popcnt(bb) == Cardinality(bb)

\* a & b on bitboards
BitAnd(a, b) == IF a = {} THEN {} ELSE a \cap b

\* a ^= b on hashes
Xor(h, tokens) == (h \ tokens) \cup (tokens \ h)

\* 1 << bit of calculateEnPassantBitMask
calculateEnPassantBitMask(bit) == Pow2(bit)

EN_PASSANT_BITMASKS == [i \in 0..15 |-> calculateEnPassantBitMask(BITS[i + 1])]

\* ------------------------------------------------------------------------
\* Score packing (util) and piece values (pieces)
\* ------------------------------------------------------------------------

\* A packed u32 is the pair <<bits 0..15, bits 16..31>>.
packScores(a, b) == <<a % 65536, b % 65536>>

unpackFirstScore(p) == ToI16(p[1])

unpackSecondScore(p) == ToI16(p[2])

\* indexed by piece id + 1 (index 0 of the source array is unused); pawn 100
\* and knight 320 are documented, the other values are representative
PIECE_VALUES == <<0, 100, 320, 330, 500, 950, 10000>>

EG_PIECE_VALUES == <<0, 120, 300, 340, 520, 980, 10000>>

\* ------------------------------------------------------------------------
\* Piece-square tables
\* ------------------------------------------------------------------------

PAWN_POSITION_SCORES == <<
  0,  0,  0,  0,  0,  0,  0,  0,
  10, 10, 10, 10, 10, 10, 10, 10,
  6,  6,  7,  8,  8,  7,  6,  6,
  2,  2,  3,  5,  5,  3,  2,  2,
  0,  0,  0,  4,  4,  0,  0,  0,
  1, -1, -2,  0,  0, -2, -1,  1,
  1,  2,  2, -4, -4,  2,  2,  1,
  0,  0,  0,  0,  0,  0,  0,  0 >>

KNIGHT_POSITION_SCORES == <<
  -10, -8, -6, -6, -6, -6, -8,-10,
  -8, -4,  0,  0,  0,  0, -4, -8,
  -6,  0,  2,  3,  3,  2,  0, -6,
  -6,  1,  3,  4,  4,  3,  1, -6,
  -6,  0,  3,  4,  4,  3,  0, -6,
  -6,  1,  2,  3,  3,  2,  1, -6,
  -8, -4,  0,  1,  1,  0, -4, -8,
  -10, -8, -6, -6, -6, -6, -8,-10 >>

BISHOP_POSITION_SCORES == <<
  -4, -2, -2, -2, -2, -2, -2, -4,
  -2,  0,  0,  0,  0,  0,  0, -2,
  -2,  0,  1,  2,  2,  1,  0, -2,
  -2,  1,  1,  2,  2,  1,  1, -2,
  -2,  0,  2,  2,  2,  2,  0, -2,
  -2,  2,  2,  2,  2,  2,  2, -2,
  -2,  1,  0,  0,  0,  0,  1, -2,
  -4, -2, -2, -2, -2, -2, -2, -4 >>

ROOK_POSITION_SCORES == <<
   0,  0,  0,  0,  0,  0,  0,  0,
   1,  2,  2,  2,  2,  2,  2,  1,
  -1,  0,  0,  0,  0,  0,  0, -1,
  -1,  0,  0,  0,  0,  0,  0, -1,
  -1,  0,  0,  0,  0,  0,  0, -1,
  -1,  0,  0,  0,  0,  0,  0, -1,
  -1,  0,  0,  0,  0,  0,  0, -1,
   0,  0,  0,  1,  1,  0,  0,  0 >>

QUEEN_POSITION_SCORES == <<
  -4, -2, -2, -1, -1, -2, -2, -4,
  -2,  0,  0,  0,  0,  0,  0, -2,
  -2,  0,  1,  1,  1,  1,  0, -2,
  -1,  0,  1,  1,  1,  1,  0, -1,
   0,  0,  1,  1,  1,  1,  0, -1,
  -2,  1,  1,  1,  1,  1,  0, -2,
  -2,  0,  1,  0,  0,  0,  0, -2,
  -4, -2, -2, -1, -1, -2, -2, -4 >>

KING_POSITION_SCORES == <<
  -5, -5, -5, -5, -5, -5, -5, -5,
  -5, -5, -5, -5, -5, -5, -5, -5,
  -5, -5, -5, -5, -5, -5, -5, -5,
  -5, -5, -5, -5, -5, -5, -5, -5,
  -5, -5, -5, -5, -5, -5, -5, -5,
  -5, -5, -5, -5, -5, -5, -5, -5,
   2,  2,  0,  0,  0,  0,  2,  2,
   3,  2,  2,  0,  0,  2,  2,  3 >>

KING_ENDGAME_POSITION_SCORES == <<
  -10, -8, -6, -4, -4, -6, -8, -10,
  -6, -4, -2,  0,  0, -2, -4, -6,
  -6, -2,  4,  6,  6,  4, -2, -6,
  -6, -2,  6,  8,  8,  6, -2, -6,
  -6, -2,  6,  8,  8,  6, -2, -6,
  -6, -2,  4,  6,  6,  4, -2, -6,
  -6, -6,  0,  0,  0,  0, -6, -6,
  -10, -6, -6, -6, -6, -6, -6, -10 >>

POSITION_SCORE_MULTIPLIERS == <<0, 5, 3, 6, 3, 3, 6>>

\* mirrored(input): rows r and 7 - r swapped, columns kept
mirrored(input) ==
  [i \in 1..64 |-> input[((7 - ((i - 1) \div 8)) * 8) + ((i - 1) % 8) + 1]]

\* combineScores: result[pieceId * 64 + pos], packed (midgame, endgame)
combineScores(color, midgameScores, endgameScores) ==
  [index \in 64..447 |->
     LET pieceId == index \div 64
         pos == index % 64
         multiplier == POSITION_SCORE_MULTIPLIERS[pieceId + 1] * color
         pieceValue == ToI16(PIECE_VALUES[pieceId + 1] * color)
         egPieceValue == ToI16(EG_PIECE_VALUES[pieceId + 1] * color)
         posScore == ToI16(pieceValue + ToI16(midgameScores[pieceId][pos + 1] * multiplier))
         egPosScore == ToI16(egPieceValue + ToI16(endgameScores[pieceId][pos + 1] * multiplier))
     IN  packScores(posScore, egPosScore)]

\* calculatePieceSquareTables, White half
WHITE_POSITION_SCORES ==
  combineScores(WHITE,
    <<PAWN_POSITION_SCORES, KNIGHT_POSITION_SCORES, BISHOP_POSITION_SCORES,
      ROOK_POSITION_SCORES, QUEEN_POSITION_SCORES, KING_POSITION_SCORES>>,
    <<PAWN_POSITION_SCORES, KNIGHT_POSITION_SCORES, BISHOP_POSITION_SCORES,
      ROOK_POSITION_SCORES, QUEEN_POSITION_SCORES, KING_ENDGAME_POSITION_SCORES>>)

\* calculatePieceSquareTables, Black half
BLACK_POSITION_SCORES ==
  combineScores(BLACK,
    <<mirrored(PAWN_POSITION_SCORES), mirrored(KNIGHT_POSITION_SCORES),
      mirrored(BISHOP_POSITION_SCORES), mirrored(ROOK_POSITION_SCORES),
      mirrored(QUEEN_POSITION_SCORES), mirrored(KING_POSITION_SCORES)>>,
    <<mirrored(PAWN_POSITION_SCORES), mirrored(KNIGHT_POSITION_SCORES),
      mirrored(BISHOP_POSITION_SCORES), mirrored(ROOK_POSITION_SCORES),
      mirrored(QUEEN_POSITION_SCORES), mirrored(KING_ENDGAME_POSITION_SCORES)>>)

\* ------------------------------------------------------------------------
\* Zobrist tokens (zobrist)
\* ------------------------------------------------------------------------

\* PIECE_RNG_NUMBERS[i], i = (piece + 6) * 64 + pos
PIECE_RNG_NUMBERS(i) == {i}

\* CASTLING_RNG_NUMBERS[i], i in 0..15
CASTLING_RNG_NUMBERS(i) == {1000 + i}

\* EN_PASSANT_RNG_NUMBERS[i], i in 0..15
EN_PASSANT_RNG_NUMBERS(i) == {2000 + i}

PLAYER_RNG_NUMBER == {3000}

\* ------------------------------------------------------------------------
\* Board: field access
\* ------------------------------------------------------------------------

getItem(b, pos) == b.items[pos + 1]

getBitBoard(b, piece) == b.bitBoardPieces[piece]

getAllPieceBitBoard(b, color) == b.bitBoardAllPieces[color]

getOccupancyBitboard(b) ==
  getAllPieceBitBoard(b, WHITE) \cup getAllPieceBitBoard(b, BLACK)

getHash(b) == b.hashCode

\* this.items[this.items.length - 1]
getState(b) == b.items[Len(b.items)]

setState(b, state) == [b EXCEPT !.items[Len(b.items)] = state]

setStateBit(b, bitMask) == [b EXCEPT !.items[Len(b.items)] = OrBit(@, bitMask)]

\* fault: the bit is toggled (^=) instead of cleared (&= ~)
clearStateBit_Toggles(b, bitMask) ==
  [b EXCEPT !.items[Len(b.items)] = IF HasBit(@, bitMask) THEN @ - bitMask ELSE @ + bitMask]

clearStateBit(b, bitMask) == [b EXCEPT !.items[Len(b.items)] = AndNotBit(@, bitMask)]

getHalfMoveClock(b) == b.halfMoveClock

getHalfMoveCount(b) == b.halfMoveCount

getActivePlayer(b) == IF b.halfMoveCount % 2 = 0 THEN WHITE ELSE BLACK

findKingPosition(b, playerColor) ==
  IF playerColor = WHITE THEN b.whiteKingIndex ELSE b.blackKingIndex

getCastlingStateBits(b) == (getState(b) \div Pow2(CASTLING_BITSTART)) % 16

getEnPassantStateBits(b) == (getState(b) \div Pow2(EN_PASSANT_BITSTART)) % 65536

hasWhiteCastled(b) == HasBit(getState(b), WHITE_HAS_CASTLED)

hasBlackCastled(b) == HasBit(getState(b), BLACK_HAS_CASTLED)

canWhiteCastleKingSide(b) == HasBit(getState(b), WHITE_KING_SIDE_CASTLING)

canBlackCastleKingSide(b) == HasBit(getState(b), BLACK_KING_SIDE_CASTLING)

canWhiteCastleQueenSide(b) == HasBit(getState(b), WHITE_QUEEN_SIDE_CASTLING)

canBlackCastleQueenSide(b) == HasBit(getState(b), BLACK_QUEEN_SIDE_CASTLING)

\* ------------------------------------------------------------------------
\* Board: hash and state flags
\* ------------------------------------------------------------------------

updateHashForCastling(b, previousCastlingState) ==
  [b EXCEPT !.hashCode =
     Xor(Xor(@, CASTLING_RNG_NUMBERS(previousCastlingState)),
         CASTLING_RNG_NUMBERS(getCastlingStateBits(b)))]

\* fault: the token of the previous en passant state stays in the hash
updateHashForEnPassent_KeepsPrevious(b, previousEnPassantState) ==
  LET newEnPassantState == getEnPassantStateBits(b)
  IN  IF previousEnPassantState # newEnPassantState /\ newEnPassantState # 0
        THEN [b EXCEPT !.hashCode =
                Xor(@, EN_PASSANT_RNG_NUMBERS(ctz(newEnPassantState)))]
        ELSE b

updateHashForEnPassent(b, previousEnPassantState) ==
  LET newEnPassantState == getEnPassantStateBits(b)
      h1 == IF previousEnPassantState # 0
              THEN Xor(b.hashCode, EN_PASSANT_RNG_NUMBERS(ctz(previousEnPassantState)))
              ELSE b.hashCode
      h2 == IF newEnPassantState # 0
              THEN Xor(h1, EN_PASSANT_RNG_NUMBERS(ctz(newEnPassantState)))
              ELSE h1
  IN  IF previousEnPassantState # newEnPassantState
        THEN [b EXCEPT !.hashCode = h2]
        ELSE b

\* fault: the en passant flag is set without its token entering the hash
setEnPassantPossible_NoHash(b, boardIndex) ==
  setStateBit(b,
    EN_PASSANT_BITMASKS[IF boardIndex >= WHITE_PAWNS_BASELINE_START
                          THEN boardIndex - WHITE_PAWNS_BASELINE_START + 8
                          ELSE boardIndex - BLACK_PAWNS_BASELINE_START])

setEnPassantPossible(b, boardIndex) ==
  LET previousEnPassantState == getEnPassantStateBits(b)
      enPassentBitIndex ==
        IF boardIndex >= WHITE_PAWNS_BASELINE_START
          THEN boardIndex - WHITE_PAWNS_BASELINE_START + 8
          ELSE boardIndex - BLACK_PAWNS_BASELINE_START
  IN  updateHashForEnPassent(
        setStateBit(b, EN_PASSANT_BITMASKS[enPassentBitIndex]),
        previousEnPassantState)

\* fault: only the Black half (bits 13..20) of the en passant flags is cleared
clearEnPassentPossible_BlackHalfOnly(b) ==
  LET previousEnPassantState == getEnPassantStateBits(b)
  IN  IF previousEnPassantState # 0
        THEN updateHashForEnPassent(
               [b EXCEPT !.items[Len(b.items)] =
                  (@ % EN_PASSANT_BITMASKS[0])
                    + ((@ \div EN_PASSANT_BITMASKS[8]) * EN_PASSANT_BITMASKS[8])],
               previousEnPassantState)
        ELSE b

clearEnPassentPossible(b) ==
  LET previousEnPassantState == getEnPassantStateBits(b)
  IN  IF previousEnPassantState # 0
        THEN updateHashForEnPassent(
               [b EXCEPT !.items[Len(b.items)] = @ % EN_PASSANT_BITMASKS[0]],
               previousEnPassantState)
        ELSE b

isEnPassentPossible(b, pieceColor, boardIndex) ==
  IF /\ pieceColor = WHITE
     /\ boardIndex >= WHITE_ENPASSANT_LINE_START
     /\ boardIndex <= WHITE_ENPASSANT_LINE_END
    THEN HasBit(getState(b), EN_PASSANT_BITMASKS[boardIndex - WHITE_ENPASSANT_LINE_START])
    ELSE IF /\ pieceColor = BLACK
            /\ boardIndex >= BLACK_ENPASSANT_LINE_START
            /\ boardIndex <= BLACK_ENPASSANT_LINE_END
      THEN HasBit(getState(b), EN_PASSANT_BITMASKS[boardIndex - BLACK_ENPASSANT_LINE_START + 8])
      ELSE FALSE

\* fault: the halfmove clock is not incremented
increaseHalfMoveCount_CountOnly(b) ==
  [b EXCEPT !.halfMoveCount = ToI16(@ + 1),
            !.hashCode = Xor(@, PLAYER_RNG_NUMBER)]

increaseHalfMoveCount(b) ==
  [b EXCEPT !.halfMoveClock = ToI16(@ + 1),
            !.halfMoveCount = ToI16(@ + 1),
            !.hashCode = Xor(@, PLAYER_RNG_NUMBER)]

\* fault: the halfmove clock is never reset
resetHalfMoveClock_Keeps(b) == b

resetHalfMoveClock(b) == [b EXCEPT !.halfMoveClock = 0]

\* fault: a king move clears only the king-side castling right
setWhiteKingMoved_KingSideOnly(b) ==
  IF canWhiteCastleKingSide(b) \/ canWhiteCastleQueenSide(b)
    THEN updateHashForCastling(
           clearStateBit(b, WHITE_KING_SIDE_CASTLING), getCastlingStateBits(b))
    ELSE b

setWhiteKingMoved(b) ==
  IF canWhiteCastleKingSide(b) \/ canWhiteCastleQueenSide(b)
    THEN updateHashForCastling(
           clearStateBit(clearStateBit(b, WHITE_KING_SIDE_CASTLING), WHITE_QUEEN_SIDE_CASTLING),
           getCastlingStateBits(b))
    ELSE b

setBlackKingMoved(b) ==
  IF canBlackCastleKingSide(b) \/ canBlackCastleQueenSide(b)
    THEN updateHashForCastling(
           clearStateBit(clearStateBit(b, BLACK_KING_SIDE_CASTLING), BLACK_QUEEN_SIDE_CASTLING),
           getCastlingStateBits(b))
    ELSE b

setWhiteQueenSideRookMoved(b) ==
  IF canWhiteCastleQueenSide(b)
    THEN updateHashForCastling(clearStateBit(b, WHITE_QUEEN_SIDE_CASTLING), getCastlingStateBits(b))
    ELSE b

setWhiteKingSideRookMoved(b) ==
  IF canWhiteCastleKingSide(b)
    THEN updateHashForCastling(clearStateBit(b, WHITE_KING_SIDE_CASTLING), getCastlingStateBits(b))
    ELSE b

\* fault: a Black rook leaving a8 clears the Black king-side right
setBlackQueenSideRookMoved_WrongSide(b) ==
  IF canBlackCastleKingSide(b)
    THEN updateHashForCastling(clearStateBit(b, BLACK_KING_SIDE_CASTLING), getCastlingStateBits(b))
    ELSE b

setBlackQueenSideRookMoved(b) ==
  IF canBlackCastleQueenSide(b)
    THEN updateHashForCastling(clearStateBit(b, BLACK_QUEEN_SIDE_CASTLING), getCastlingStateBits(b))
    ELSE b

setBlackKingSideRookMoved(b) ==
  IF canBlackCastleKingSide(b)
    THEN updateHashForCastling(clearStateBit(b, BLACK_KING_SIDE_CASTLING), getCastlingStateBits(b))
    ELSE b

\* fault: the king is marked as moved but its cached index is not updated
updateWhiteKingPosition_KeepsIndex(b, boardIndex) == setWhiteKingMoved(b)

updateWhiteKingPosition(b, boardIndex) ==
  setWhiteKingMoved([b EXCEPT !.whiteKingIndex = boardIndex])

updateBlackKingPosition(b, boardIndex) ==
  setBlackKingMoved([b EXCEPT !.blackKingIndex = boardIndex])

updateKingPosition(b, playerColor, boardIndex) ==
  IF playerColor = WHITE
    THEN updateWhiteKingPosition(b, boardIndex)
    ELSE updateBlackKingPosition(b, boardIndex)

\* ------------------------------------------------------------------------
\* Board: adding and removing pieces
\* ------------------------------------------------------------------------

addPieceScore(b, pos, piece) ==
  LET packedScores ==
        IF piece > 0
          THEN WHITE_POSITION_SCORES[(piece * 64) + pos]
          ELSE BLACK_POSITION_SCORES[((-piece) * 64) + pos]
  IN  [b EXCEPT !.score = ToI16(@ + unpackFirstScore(packedScores)),
                !.egScore = ToI16(@ + unpackSecondScore(packedScores))]

\* fault: the endgame half of the packed entry is added instead of subtracted
subtractPieceScore_EgAdded(b, pos, piece) ==
  LET packedScores ==
        IF piece > 0
          THEN WHITE_POSITION_SCORES[(piece * 64) + pos]
          ELSE BLACK_POSITION_SCORES[((-piece) * 64) + pos]
  IN  [b EXCEPT !.score = ToI16(@ - unpackFirstScore(packedScores)),
                !.egScore = ToI16(@ + unpackSecondScore(packedScores))]

subtractPieceScore(b, pos, piece) ==
  LET packedScores ==
        IF piece > 0
          THEN WHITE_POSITION_SCORES[(piece * 64) + pos]
          ELSE BLACK_POSITION_SCORES[((-piece) * 64) + pos]
  IN  [b EXCEPT !.score = ToI16(@ - unpackFirstScore(packedScores)),
                !.egScore = ToI16(@ - unpackSecondScore(packedScores))]

addPieceWithoutIncrementalUpdate(b, pieceColor, piece, pos) ==
  [b EXCEPT !.items[pos + 1] = piece,
            !.bitBoardPieces[piece] = @ \cup {pos},
            !.bitBoardAllPieces[pieceColor] = @ \cup {pos}]

addPiece(b, pieceColor, pieceId, pos) ==
  LET piece == pieceId * pieceColor
      b1 == addPieceScore([b EXCEPT !.items[pos + 1] = piece], pos, piece)
  IN  [b1 EXCEPT !.hashCode = Xor(@, PIECE_RNG_NUMBERS(((piece + 6) * 64) + pos)),
                 !.bitBoardPieces[piece] = @ \cup {pos},
                 !.bitBoardAllPieces[pieceColor] = @ \cup {pos}]

\* fault: the colour occupancy bitboard keeps the square
remove_KeepsOccupancy(b, piece, pieceColor, pos) ==
  LET b1 == [b EXCEPT !.bitBoardPieces[piece] = @ \ {pos},
                      !.items[pos + 1] = EMPTY]
  IN  IF piece = ROOK
        THEN IF pos = WHITE_QUEEN_SIDE_ROOK_START THEN setWhiteQueenSideRookMoved(b1)
             ELSE IF pos = WHITE_KING_SIDE_ROOK_START THEN setWhiteKingSideRookMoved(b1)
             ELSE b1
      ELSE IF piece = -ROOK
        THEN IF pos = BLACK_QUEEN_SIDE_ROOK_START THEN setBlackQueenSideRookMoved(b1)
             ELSE IF pos = BLACK_KING_SIDE_ROOK_START THEN setBlackKingSideRookMoved(b1)
             ELSE b1
      ELSE b1

\* remove(piece, pieceColor, pos); the returned piece is the argument `piece`
remove(b, piece, pieceColor, pos) ==
  LET b1 == [b EXCEPT !.bitBoardPieces[piece] = @ \ {pos},
                      !.bitBoardAllPieces[pieceColor] = @ \ {pos},
                      !.items[pos + 1] = EMPTY]
  IN  IF piece = ROOK
        THEN IF pos = WHITE_QUEEN_SIDE_ROOK_START THEN setWhiteQueenSideRookMoved(b1)
             ELSE IF pos = WHITE_KING_SIDE_ROOK_START THEN setWhiteKingSideRookMoved(b1)
             ELSE b1
      ELSE IF piece = -ROOK
        THEN IF pos = BLACK_QUEEN_SIDE_ROOK_START THEN setBlackQueenSideRookMoved(b1)
             ELSE IF pos = BLACK_KING_SIDE_ROOK_START THEN setBlackKingSideRookMoved(b1)
             ELSE b1
      ELSE b1

\* removePiece(pos): the board afterwards; the returned piece is getItem(b, pos)
removePiece(b, pos) ==
  LET piece == getItem(b, pos)
      b1 == subtractPieceScore(b, pos, piece)
      b2 == [b1 EXCEPT !.hashCode = Xor(@, PIECE_RNG_NUMBERS(((piece + 6) * 64) + pos))]
  IN  remove(b2, piece, sign(piece), pos)

removePieceWithoutIncrementalUpdate(b, pos) ==
  LET piece == getItem(b, pos)
  IN  remove(b, piece, sign(piece), pos)

\* ------------------------------------------------------------------------
\* Board: history frames
\* ------------------------------------------------------------------------

\* fault: the frame is written but historyCounter is not advanced
storeState_KeepsCounter(b) ==
  [b EXCEPT !.stateHistory = Append(@, b.items[STATE_INDEX + 1]),
            !.halfMoveClockHistory = Append(@, b.halfMoveClock),
            !.hashCodeHistory = Append(@, b.hashCode),
            !.scoreHistory = Append(@, packScores(b.score, b.egScore))]

\* The four history arrays are modelled up to historyCounter: the entries at
\* and above historyCounter are never read before storeState overwrites them.
\* storeState and restoreState address the state as items[STATE_INDEX].
storeState(b) ==
  [b EXCEPT !.stateHistory = Append(@, b.items[STATE_INDEX + 1]),
            !.halfMoveClockHistory = Append(@, b.halfMoveClock),
            !.hashCodeHistory = Append(@, b.hashCode),
            !.scoreHistory = Append(@, packScores(b.score, b.egScore)),
            !.historyCounter = @ + 1]

\* fault: the halfmove clock of the frame is not restored
restoreState_KeepsClock(b) ==
  LET hc == b.historyCounter - 1
      packedScore == b.scoreHistory[hc + 1]
  IN  [b EXCEPT
         !.items[STATE_INDEX + 1] = b.stateHistory[hc + 1],
         !.halfMoveCount = ToI16(@ - 1),
         !.historyCounter = hc,
         !.hashCode = b.hashCodeHistory[hc + 1],
         !.score = unpackFirstScore(packedScore),
         !.egScore = unpackSecondScore(packedScore),
         !.stateHistory = SubSeq(@, 1, hc),
         !.halfMoveClockHistory = SubSeq(@, 1, hc),
         !.hashCodeHistory = SubSeq(@, 1, hc),
         !.scoreHistory = SubSeq(@, 1, hc)]

restoreState(b) ==
  LET hc == b.historyCounter - 1
      packedScore == b.scoreHistory[hc + 1]
  IN  [b EXCEPT
         !.items[STATE_INDEX + 1] = b.stateHistory[hc + 1],
         !.halfMoveCount = ToI16(@ - 1),
         !.historyCounter = hc,
         !.halfMoveClock = b.halfMoveClockHistory[hc + 1],
         !.hashCode = b.hashCodeHistory[hc + 1],
         !.score = unpackFirstScore(packedScore),
         !.egScore = unpackSecondScore(packedScore),
         !.stateHistory = SubSeq(@, 1, hc),
         !.halfMoveClockHistory = SubSeq(@, 1, hc),
         !.hashCodeHistory = SubSeq(@, 1, hc),
         !.scoreHistory = SubSeq(@, 1, hc)]

\* PositionHistory.push / pop (history)
positionHistoryPush(b, hash) == [b EXCEPT !.positionHistory = Append(@, hash)]

positionHistoryPop(b) ==
  [b EXCEPT !.positionHistory = SubSeq(@, 1, Len(@) - 1)]

\* recalculateHash(): the value it leaves in hashCode
recalculateHash(b) ==
  LET pieces == UNION {PIECE_RNG_NUMBERS(((getItem(b, pos) + 6) * 64) + pos) :
                         pos \in {p \in Squares : getItem(b, p) # EMPTY}}
      h1 == IF getActivePlayer(b) = BLACK THEN Xor(pieces, PLAYER_RNG_NUMBER) ELSE pieces
      b1 == updateHashForCastling([b EXCEPT !.hashCode = h1],
                                  ALL_CASTLING_RIGHTS \div Pow2(CASTLING_BITSTART))
  IN  updateHashForEnPassent(b1, 0)

\* fault: only the pawns are counted
updateEndGameStatus_PawnsOnly(b) ==
  [b EXCEPT !.endgame =
     IF popcnt(getBitBoard(b, PAWN)) + popcnt(getBitBoard(b, -PAWN)) <= 3 THEN 1 ELSE 0]

updateEndGameStatus(b) ==
  LET pawnCount == popcnt(getBitBoard(b, PAWN)) + popcnt(getBitBoard(b, -PAWN))
      otherPieceCount ==
        popcnt(getBitBoard(b, KNIGHT)) + popcnt(getBitBoard(b, -KNIGHT))
          + popcnt(getBitBoard(b, BISHOP)) + popcnt(getBitBoard(b, -BISHOP))
          + popcnt(getBitBoard(b, ROOK)) + popcnt(getBitBoard(b, -ROOK))
          + popcnt(getBitBoard(b, QUEEN)) + popcnt(getBitBoard(b, -QUEEN))
  IN  IF pawnCount <= 3
        THEN [b EXCEPT !.endgame = 1]
        ELSE [b EXCEPT !.endgame = IF otherPieceCount <= 3 THEN 1 ELSE 0]

isEndGame(b) == b.endgame # 0

\* ------------------------------------------------------------------------
\* Board: make / unmake
\* ------------------------------------------------------------------------

\* fault: the captured piece is returned with its sign
CaptureResult_Signed(removedPiece) == removedPiece

\* return abs(removedPiece) of the capture path
CaptureResult(removedPiece) == abs(removedPiece)

\* the return paths of performMove push the hash and return a value
PushAndReturn(b, value) ==
  [board |-> positionHistoryPush(b, getHash(b)), ret |-> value]

\* performMove, capture branch (the destination is occupied)
captureMove(b3, pieceColor, pieceId, end) ==
  PushAndReturn(
    IF pieceId = KING
      THEN updateKingPosition(
             resetHalfMoveClock(addPiece(removePiece(b3, end), pieceColor, pieceId, end)),
             pieceColor, end)
      ELSE resetHalfMoveClock(addPiece(removePiece(b3, end), pieceColor, pieceId, end)),
    CaptureResult(getItem(b3, end)))

\* fault: the en passant return paths leave out the push of the hash
whitePawnMove_EnPassantWithoutPush(p1, start, end) ==
  IF start - end = 16
    THEN PushAndReturn(setEnPassantPossible(p1, start), EMPTY)
  ELSE IF start - end = 7
    THEN [board |-> removePiece(p1, start + WHITE), ret |-> EN_PASSANT_BIT]
  ELSE IF start - end = 9
    THEN [board |-> removePiece(p1, start - WHITE), ret |-> EN_PASSANT_BIT]
  ELSE PushAndReturn(p1, EMPTY)

\* performMove, ownPiece == PAWN: p1 is the board after resetHalfMoveClock
whitePawnMove(p1, start, end) ==
  IF start - end = 16
    THEN PushAndReturn(setEnPassantPossible(p1, start), EMPTY)
  ELSE IF start - end = 7
    THEN PushAndReturn(removePiece(p1, start + WHITE), EN_PASSANT_BIT)
  ELSE IF start - end = 9
    THEN PushAndReturn(removePiece(p1, start - WHITE), EN_PASSANT_BIT)
  ELSE PushAndReturn(p1, EMPTY)

\* performMove, ownPiece == -PAWN: p1 is the board after resetHalfMoveClock
blackPawnMove(p1, start, end) ==
  IF start - end = -16
    THEN PushAndReturn(setEnPassantPossible(p1, start), EMPTY)
  ELSE IF start - end = -7
    THEN PushAndReturn(removePiece(p1, start + BLACK), EN_PASSANT_BIT)
  ELSE IF start - end = -9
    THEN PushAndReturn(removePiece(p1, start - BLACK), EN_PASSANT_BIT)
  ELSE PushAndReturn(p1, EMPTY)

\* performMove, ownPiece == KING: k1 is the board after updateWhiteKingPosition
whiteKingMove(k1, pieceColor, start, end) ==
  IF start - end = -2
    THEN PushAndReturn(
           setStateBit(
             addPiece(removePiece(k1, WHITE_KING_SIDE_ROOK_START),
                      pieceColor, ROOK, WHITE_KING_START + 1),
             WHITE_HAS_CASTLED), EMPTY)
  ELSE IF start - end = 2
    THEN PushAndReturn(
           setStateBit(
             addPiece(removePiece(k1, WHITE_QUEEN_SIDE_ROOK_START),
                      pieceColor, ROOK, WHITE_KING_START - 1),
             WHITE_HAS_CASTLED), EMPTY)
  ELSE PushAndReturn(k1, EMPTY)

\* performMove, ownPiece == -KING: k1 is the board after updateBlackKingPosition
blackKingMove(k1, pieceColor, start, end) ==
  IF start - end = -2
    THEN PushAndReturn(
           setStateBit(
             addPiece(removePiece(k1, BLACK_KING_SIDE_ROOK_START),
                      pieceColor, ROOK, BLACK_KING_START + 1),
             BLACK_HAS_CASTLED), EMPTY)
  ELSE IF start - end = 2
    THEN PushAndReturn(
           setStateBit(
             addPiece(removePiece(k1, BLACK_QUEEN_SIDE_ROOK_START),
                      pieceColor, ROOK, BLACK_KING_START - 1),
             BLACK_HAS_CASTLED), EMPTY)
  ELSE PushAndReturn(k1, EMPTY)

\* performMove, the destination is empty: b4 is the board after addPiece
nonCaptureMove(b4, ownPiece, pieceColor, start, end) ==
  IF ownPiece = PAWN THEN whitePawnMove(resetHalfMoveClock(b4), start, end)
  ELSE IF ownPiece = -PAWN THEN blackPawnMove(resetHalfMoveClock(b4), start, end)
  ELSE IF ownPiece = KING
    THEN whiteKingMove(updateWhiteKingPosition(b4, end), pieceColor, start, end)
  ELSE IF ownPiece = -KING
    THEN blackKingMove(updateBlackKingPosition(b4, end), pieceColor, start, end)
  ELSE PushAndReturn(b4, EMPTY)

\* performMove from the test of the destination square on: b3 is the board
\* after clearEnPassentPossible, ownPiece the piece removed from start
placeOwnPiece(b3, ownPiece, pieceId, start, end) ==
  IF getItem(b3, end) # EMPTY
    THEN captureMove(b3, sign(ownPiece), pieceId, end)
    ELSE nonCaptureMove(addPiece(b3, sign(ownPiece), pieceId, end),
                        ownPiece, sign(ownPiece), start, end)

\* performMove(pieceId, start, end): [board |-> the board afterwards,
\* ret |-> the returned value]; storeState and increaseHalfMoveCount leave
\* items[start] alone, so removePiece(start) returns the item of b
performMove(b, pieceId, start, end) ==
  placeOwnPiece(
    clearEnPassentPossible(removePiece(increaseHalfMoveCount(storeState(b)), start)),
    getItem(b, start), pieceId, start, end)

\* fault: the en passant flags are cleared before the frame is stored
performNullMove_ClearsFirst(b) ==
  increaseHalfMoveCount(storeState(clearEnPassentPossible(b)))

performNullMove(b) == clearEnPassentPossible(increaseHalfMoveCount(storeState(b)))

\* undoMove: the moved piece goes back from end to start
undoOwnPiece(b0, piece, start, end) ==
  addPieceWithoutIncrementalUpdate(
    removePieceWithoutIncrementalUpdate(b0, end), sign(piece), piece, start)

\* fault: the pawn captured en passant comes back on the same side of the
\* start square for both diagonals
undoCapture_SameSide(b1, pieceColor, start, end, removedPieceId) ==
  IF removedPieceId = EN_PASSANT_BIT
    THEN IF abs(start - end) \in {7, 9}
           THEN addPieceWithoutIncrementalUpdate(
                  b1, -pieceColor, PAWN * (-pieceColor), start + pieceColor)
         ELSE b1
  ELSE IF removedPieceId # EMPTY
    THEN addPieceWithoutIncrementalUpdate(
           b1, -pieceColor, removedPieceId * (-pieceColor), end)
  ELSE b1

\* undoMove: the captured piece comes back
undoCapture(b1, pieceColor, start, end, removedPieceId) ==
  IF removedPieceId = EN_PASSANT_BIT
    THEN IF abs(start - end) = 7
           THEN addPieceWithoutIncrementalUpdate(
                  b1, -pieceColor, PAWN * (-pieceColor), start + pieceColor)
         ELSE IF abs(start - end) = 9
           THEN addPieceWithoutIncrementalUpdate(
                  b1, -pieceColor, PAWN * (-pieceColor), start - pieceColor)
         ELSE b1
  ELSE IF removedPieceId # EMPTY
    THEN addPieceWithoutIncrementalUpdate(
           b1, -pieceColor, removedPieceId * (-pieceColor), end)
  ELSE b1

\* undoMove, piece == KING: k1 is the board after updateWhiteKingPosition
undoWhiteCastle(k1, start, end) ==
  IF start - end = -2
    THEN addPieceWithoutIncrementalUpdate(
           removePieceWithoutIncrementalUpdate(k1, WHITE_KING_START + 1),
           WHITE, ROOK, WHITE_KING_SIDE_ROOK_START)
  ELSE IF start - end = 2
    THEN addPieceWithoutIncrementalUpdate(
           removePieceWithoutIncrementalUpdate(k1, WHITE_KING_START - 1),
           WHITE, ROOK, WHITE_QUEEN_SIDE_ROOK_START)
  ELSE k1

\* undoMove, piece == -KING: k1 is the board after updateBlackKingPosition
undoBlackCastle(k1, start, end) ==
  IF start - end = -2
    THEN addPieceWithoutIncrementalUpdate(
           removePieceWithoutIncrementalUpdate(k1, BLACK_KING_START + 1),
           BLACK, -ROOK, BLACK_KING_SIDE_ROOK_START)
  ELSE IF start - end = 2
    THEN addPieceWithoutIncrementalUpdate(
           removePieceWithoutIncrementalUpdate(k1, BLACK_KING_START - 1),
           BLACK, -ROOK, BLACK_QUEEN_SIDE_ROOK_START)
  ELSE k1

\* undoMove: the king index and the castling rook go back
undoKingMove(b2, piece, start, end) ==
  IF piece = KING THEN undoWhiteCastle(updateWhiteKingPosition(b2, start), start, end)
  ELSE IF piece = -KING THEN undoBlackCastle(updateBlackKingPosition(b2, start), start, end)
  ELSE b2

\* undoMove(piece, start, end, removedPieceId)
undoMove(b, piece, start, end, removedPieceId) ==
  restoreState(
    undoKingMove(
      undoCapture(undoOwnPiece(positionHistoryPop(b), piece, start, end),
                  sign(piece), start, end, removedPieceId),
      piece, start, end))

\* fault: the endgame flag is recomputed when the null move is taken back
undoNullMove_UpdatesEndGame(b) == updateEndGameStatus(restoreState(b))

undoNullMove(b) == restoreState(b)

\* ------------------------------------------------------------------------
\* Board: construction
\* ------------------------------------------------------------------------

\* items.findIndex(pred): the first index of the whole vector holding `piece`, or -1
findIndex(v, piece) ==
  IF \E i \in 1..Len(v) : v[i] = piece
    THEN (CHOOSE i \in 1..Len(v) : v[i] = piece /\ \A j \in 1..(i - 1) : v[j] # piece) - 1
    ELSE -1

\* the fields of a Board before the constructor body runs
NewBoard(v) ==
  [items |-> [i \in 1..Len(v) |-> 0],
   whiteKingIndex |-> 0,
   blackKingIndex |-> 0,
   score |-> 0,
   egScore |-> 0,
   halfMoveCount |-> 0,
   halfMoveClock |-> 0,
   bitBoardPieces |-> [p \in -6..6 |-> {}],
   bitBoardAllPieces |-> [c \in -1..1 |-> {}],
   hashCode |-> {},
   historyCounter |-> 0,
   stateHistory |-> <<>>,
   hashCodeHistory |-> <<>>,
   scoreHistory |-> <<>>,
   halfMoveClockHistory |-> <<>>,
   positionHistory |-> <<>>,
   endgame |-> 0]

RECURSIVE constructorLoop(_, _, _)
\* for (i = 0; i < 64; i++) of the constructor; for an empty square the loop
\* stores EMPTY into the zero-initialised items[i], which changes nothing
constructorLoop(b, v, i) ==
  IF i >= 64 THEN b
  ELSE IF v[i + 1] # EMPTY
    THEN CHOOSE r \in {constructorLoop(nb, v, i + 1) :
                         nb \in {addPiece(b, sign(v[i + 1]), abs(v[i + 1]), i)}} : TRUE
    ELSE constructorLoop(b, v, i + 1)

\* the constructor throws on this vector
constructorThrows(v) ==
  \/ Len(v) < STATE_INDEX + 1
  \/ findIndex(v, KING) = -1
  \/ findIndex(v, -KING) = -1

\* new Board(items) for a vector on which the constructor does not throw
constructor(v) ==
  LET b0 == [NewBoard(v) EXCEPT !.whiteKingIndex = findIndex(v, KING),
                                !.blackKingIndex = findIndex(v, -KING)]
      b1 == constructorLoop(b0, v, 0)
      b2 == [b1 EXCEPT !.items[STATE_INDEX + 1] = v[STATE_INDEX + 1],
                       !.halfMoveClock = ToI16(v[HALFMOVE_CLOCK_INDEX + 1]),
                       !.halfMoveCount = ToI16(v[HALFMOVE_COUNT_INDEX + 1])]
  IN  updateEndGameStatus(b2)

\* ------------------------------------------------------------------------
\* Attack patterns (bitboard)
\* ------------------------------------------------------------------------

Rank(s) == s \div 8

File(s) == s % 8

OnBoard(r, f) == r >= 0 /\ r <= 7 /\ f >= 0 /\ f <= 7

\* squares reached from pos in direction (dr, df), up to and including the
\* first square of `occupied`
RayAttacks(occupied, pos, dr, df) ==
  {(Rank(pos) + k * dr) * 8 + (File(pos) + k * df) : k \in
     {k \in 1..7 :
        /\ OnBoard(Rank(pos) + k * dr, File(pos) + k * df)
        /\ \A j \in 1..(k - 1) :
             ((Rank(pos) + j * dr) * 8 + (File(pos) + j * df)) \notin occupied}}

horizontalAttacks(occupied, pos) ==
  RayAttacks(occupied, pos, 0, 1) \cup RayAttacks(occupied, pos, 0, -1)

verticalAttacks(occupied, pos) ==
  RayAttacks(occupied, pos, 1, 0) \cup RayAttacks(occupied, pos, -1, 0)

diagonalAttacks(occupied, pos) ==
  RayAttacks(occupied, pos, 1, 1) \cup RayAttacks(occupied, pos, -1, -1)

antiDiagonalAttacks(occupied, pos) ==
  RayAttacks(occupied, pos, 1, -1) \cup RayAttacks(occupied, pos, -1, 1)

\* squares (dr, df) away from pos, for the offsets that stay on the board
Offsets(pos, deltas) ==
  {(Rank(pos) + d[1]) * 8 + (File(pos) + d[2]) :
     d \in {e \in deltas : OnBoard(Rank(pos) + e[1], File(pos) + e[2])}}

KNIGHT_PATTERNS(pos) ==
  Offsets(pos, {<<-2, -1>>, <<-2, 1>>, <<-1, -2>>, <<-1, 2>>,
                <<1, -2>>, <<1, 2>>, <<2, -1>>, <<2, 1>>})

KING_PATTERNS(pos) ==
  Offsets(pos, {<<-1, -1>>, <<-1, 0>>, <<-1, 1>>, <<0, -1>>,
                <<0, 1>>, <<1, -1>>, <<1, 0>>, <<1, 1>>})

\* squares attacked by White pawns towards the lower file (pawn on s attacks s - 9)
whiteLeftPawnAttacks(pawns) == {s - 9 : s \in {p \in pawns : File(p) # 0 /\ Rank(p) # 0}}

\* squares attacked by White pawns towards the higher file (pawn on s attacks s - 7)
whiteRightPawnAttacks(pawns) == {s - 7 : s \in {p \in pawns : File(p) # 7 /\ Rank(p) # 0}}

\* squares attacked by Black pawns towards the lower file (pawn on s attacks s + 7)
blackLeftPawnAttacks(pawns) == {s + 7 : s \in {p \in pawns : File(p) # 0 /\ Rank(p) # 7}}

\* squares attacked by Black pawns towards the higher file (pawn on s attacks s + 9)
blackRightPawnAttacks(pawns) == {s + 9 : s \in {p \in pawns : File(p) # 7 /\ Rank(p) # 7}}

\* ------------------------------------------------------------------------
\* Board: attack queries
\* ------------------------------------------------------------------------

\* findSmallestAttacker(occupiedBB, opponentColor, pos)
findSmallestAttacker(b, occupiedBB, opponentColor, pos) ==
  LET c == IF opponentColor = WHITE THEN WHITE ELSE BLACK
      targetBB == {pos}
      pawns == getBitBoard(b, PAWN * c) \cap occupiedBB
      leftHit == IF c = WHITE
                   THEN (whiteLeftPawnAttacks(pawns) \cap targetBB) # {}
                   ELSE (blackLeftPawnAttacks(pawns) \cap targetBB) # {}
      rightHit == IF c = WHITE
                    THEN (whiteRightPawnAttacks(pawns) \cap targetBB) # {}
                    ELSE (blackRightPawnAttacks(pawns) \cap targetBB) # {}
      knights == getBitBoard(b, KNIGHT * c) \cap occupiedBB
      attackingKnights == BitAnd(knights, KNIGHT_PATTERNS(pos))
      allDiagonalAttacks == diagonalAttacks(occupiedBB, pos) \cup antiDiagonalAttacks(occupiedBB, pos)
      bishops == getBitBoard(b, BISHOP * c) \cap occupiedBB
      attackingBishops == BitAnd(bishops, allDiagonalAttacks)
      orthogonalAttacks == horizontalAttacks(occupiedBB, pos) \cup verticalAttacks(occupiedBB, pos)
      rooks == getBitBoard(b, ROOK * c) \cap occupiedBB
      attackingRooks == BitAnd(rooks, orthogonalAttacks)
      queens == getBitBoard(b, QUEEN * c) \cap occupiedBB
      attackingQueens == BitAnd(queens, orthogonalAttacks \cup allDiagonalAttacks)
      kingPos == IF c = WHITE THEN b.whiteKingIndex ELSE b.blackKingIndex
      attackingKing == BitAnd(targetBB, KING_PATTERNS(kingPos))
  IN  IF leftHit THEN (IF c = WHITE THEN pos + 9 ELSE pos - 7)
      ELSE IF rightHit THEN (IF c = WHITE THEN pos + 7 ELSE pos - 9)
      ELSE IF attackingKnights # {} THEN ctzBB(attackingKnights)
      ELSE IF attackingBishops # {} THEN ctzBB(attackingBishops)
      ELSE IF attackingRooks # {} THEN ctzBB(attackingRooks)
      ELSE IF attackingQueens # {} THEN ctzBB(attackingQueens)
      ELSE IF attackingKing # {} /\ ({kingPos} \cap occupiedBB) # {} THEN kingPos
      ELSE -1

\* fault: an attacker on square 0 is not counted
isAttacked_Strict(b, opponentColor, pos) ==
  findSmallestAttacker(b, getOccupancyBitboard(b), opponentColor, pos) > 0

isAttacked(b, opponentColor, pos) ==
  findSmallestAttacker(b, getOccupancyBitboard(b), opponentColor, pos) >= 0

isInCheck(b, activeColor) ==
  isAttacked(b, -activeColor, findKingPosition(b, activeColor))

\* PIECE_VALUES[abs(this.getItem(pos))]
valueOn(b, pos) == PIECE_VALUES[abs(getItem(b, pos)) + 1]

RECURSIVE seeOpponentTurn(_, _, _, _, _, _)
RECURSIVE seeOwnTurn(_, _, _, _, _, _)

\* fault: the early exit returns the score before the capturing piece is lost
seeOpponentCaptures_ExitBeforeLoss(b, opponentColor, target, score, occupied, trophyPieceScore, attackerPos) ==
  IF attackerPos < 0 THEN score
  ELSE IF (score - trophyPieceScore) + valueOn(b, attackerPos) < 0
    THEN score
  ELSE seeOwnTurn(b, opponentColor, target, score - trophyPieceScore,
                  occupied \ {attackerPos}, valueOn(b, attackerPos))

\* seeScore, first half of the loop body: the opponent's cheapest attacker on
\* attackerPos takes the piece on target
seeOpponentCaptures(b, opponentColor, target, score, occupied, trophyPieceScore, attackerPos) ==
  IF attackerPos < 0 THEN score
  ELSE IF (score - trophyPieceScore) + valueOn(b, attackerPos) < 0
    THEN score - trophyPieceScore
  ELSE seeOwnTurn(b, opponentColor, target, score - trophyPieceScore,
                  occupied \ {attackerPos}, valueOn(b, attackerPos))

\* seeScore, second half of the loop body: the own cheapest attacker on
\* ownAttackerPos takes back
seeOwnCaptures(b, opponentColor, target, score, occupied, trophyPieceScore, ownAttackerPos) ==
  IF ownAttackerPos < 0 THEN score
  ELSE IF (score + trophyPieceScore) - valueOn(b, ownAttackerPos) > 0
    THEN score + trophyPieceScore
  ELSE seeOpponentTurn(b, opponentColor, target, score + trophyPieceScore,
                       occupied \ {ownAttackerPos}, valueOn(b, ownAttackerPos))

seeOpponentTurn(b, opponentColor, target, score, occupied, trophyPieceScore) ==
  seeOpponentCaptures(b, opponentColor, target, score, occupied, trophyPieceScore,
                      findSmallestAttacker(b, occupied, opponentColor, target))

seeOwnTurn(b, opponentColor, target, score, occupied, trophyPieceScore) ==
  seeOwnCaptures(b, opponentColor, target, score, occupied, trophyPieceScore,
                 findSmallestAttacker(b, occupied, -opponentColor, target))

\* seeScore(opponentColor, from, target, ownPieceId, capturedPieceId)
seeScore(b, opponentColor, from, target, ownPieceId, capturedPieceId) ==
  seeOpponentTurn(b, opponentColor, target, PIECE_VALUES[capturedPieceId + 1],
                  getOccupancyBitboard(b) \ {from}, PIECE_VALUES[ownPieceId + 1])

\* ------------------------------------------------------------------------
\* Legal moves (move-generation): the inputs of performMove
\* ------------------------------------------------------------------------

\* pieces a pawn may promote to in the model
PromotionPieces == {KNIGHT, QUEEN}

Move(pieceId, start, end) == [pieceId |-> pieceId, start |-> start, end |-> end]

IsEmpty(b, pos) == getItem(b, pos) = EMPTY

\* an enemy piece other than the king stands on pos
IsEnemy(b, color, pos) ==
  sign(getItem(b, pos)) = -color /\ abs(getItem(b, pos)) # KING

\* the piece ids a pawn arriving on `end` may become
PawnPieceIds(color, end) ==
  IF (color = WHITE /\ Rank(end) = 0) \/ (color = BLACK /\ Rank(end) = 7)
    THEN PromotionPieces
    ELSE {PAWN}

PawnMoves(b, color, s) ==
  LET fwd == s - 8 * color
      baseline == IF color = WHITE THEN Rank(s) = 6 ELSE Rank(s) = 1
      pushes ==
        (IF IsEmpty(b, fwd) THEN {fwd} ELSE {})
          \cup (IF baseline /\ IsEmpty(b, fwd) /\ IsEmpty(b, fwd - 8 * color)
                  THEN {fwd - 8 * color} ELSE {})
      diagonals == Offsets(s, {<<-color, -1>>, <<-color, 1>>})
      captures == {t \in diagonals : IsEnemy(b, color, t)}
      enPassant ==
        {t \in diagonals :
           /\ IsEmpty(b, t)
           /\ isEnPassentPossible(b, color, t)
           /\ getItem(b, t + 8 * color) = PAWN * (-color)}
  IN  {Move(id, s, t) : id \in PawnPieceIds(color, fwd), t \in pushes \cup captures \cup enPassant}

KnightMoves(b, color, s) ==
  {Move(KNIGHT, s, t) : t \in {u \in KNIGHT_PATTERNS(s) : IsEmpty(b, u) \/ IsEnemy(b, color, u)}}

SliderTargets(b, color, s, attacks) ==
  {u \in attacks : IsEmpty(b, u) \/ IsEnemy(b, color, u)}

BishopMoves(b, color, s) ==
  {Move(BISHOP, s, t) : t \in SliderTargets(b, color, s,
     diagonalAttacks(getOccupancyBitboard(b), s) \cup antiDiagonalAttacks(getOccupancyBitboard(b), s))}

RookMoves(b, color, s) ==
  {Move(ROOK, s, t) : t \in SliderTargets(b, color, s,
     horizontalAttacks(getOccupancyBitboard(b), s) \cup verticalAttacks(getOccupancyBitboard(b), s))}

QueenMoves(b, color, s) ==
  {Move(QUEEN, s, t) : t \in SliderTargets(b, color, s,
     diagonalAttacks(getOccupancyBitboard(b), s) \cup antiDiagonalAttacks(getOccupancyBitboard(b), s)
       \cup horizontalAttacks(getOccupancyBitboard(b), s) \cup verticalAttacks(getOccupancyBitboard(b), s))}

\* castling: right present, king and rook on their start squares, squares
\* between them empty, king neither in check nor passing an attacked square
CastlingMoves(b, color, s) ==
  LET kingStart == IF color = WHITE THEN WHITE_KING_START ELSE BLACK_KING_START
      kingSideRook == IF color = WHITE THEN WHITE_KING_SIDE_ROOK_START ELSE BLACK_KING_SIDE_ROOK_START
      queenSideRook == IF color = WHITE THEN WHITE_QUEEN_SIDE_ROOK_START ELSE BLACK_QUEEN_SIDE_ROOK_START
      canKingSide == IF color = WHITE THEN canWhiteCastleKingSide(b) ELSE canBlackCastleKingSide(b)
      canQueenSide == IF color = WHITE THEN canWhiteCastleQueenSide(b) ELSE canBlackCastleQueenSide(b)
      safe(sq) == ~isAttacked(b, -color, sq)
      kingSide ==
        IF /\ canKingSide
           /\ getItem(b, kingSideRook) = ROOK * color
           /\ IsEmpty(b, kingStart + 1) /\ IsEmpty(b, kingStart + 2)
           /\ safe(kingStart) /\ safe(kingStart + 1) /\ safe(kingStart + 2)
          THEN {Move(KING, s, kingStart + 2)} ELSE {}
      queenSide ==
        IF /\ canQueenSide
           /\ getItem(b, queenSideRook) = ROOK * color
           /\ IsEmpty(b, kingStart - 1) /\ IsEmpty(b, kingStart - 2) /\ IsEmpty(b, kingStart - 3)
           /\ safe(kingStart) /\ safe(kingStart - 1) /\ safe(kingStart - 2)
          THEN {Move(KING, s, kingStart - 2)} ELSE {}
  IN  IF s = kingStart THEN kingSide \cup queenSide ELSE {}

KingMoves(b, color, s) ==
  {Move(KING, s, t) : t \in {u \in KING_PATTERNS(s) : IsEmpty(b, u) \/ IsEnemy(b, color, u)}}
    \cup CastlingMoves(b, color, s)

PieceMoves(b, color, s) ==
  LET id == abs(getItem(b, s))
  IN  IF id = PAWN THEN PawnMoves(b, color, s)
      ELSE IF id = KNIGHT THEN KnightMoves(b, color, s)
      ELSE IF id = BISHOP THEN BishopMoves(b, color, s)
      ELSE IF id = ROOK THEN RookMoves(b, color, s)
      ELSE IF id = QUEEN THEN QueenMoves(b, color, s)
      ELSE KingMoves(b, color, s)

PseudoLegalMoves(b) ==
  LET color == getActivePlayer(b)
  IN  UNION {PieceMoves(b, color, s) : s \in getAllPieceBitBoard(b, color)}

\* ------------------------------------------------------------------------
\* Start positions
\* ------------------------------------------------------------------------

\* the 67-entry constructor argument: 64 squares, halfmove clock, halfmove
\* count, state
Vector(pieces, clock, count, state) ==
  [i \in 1..(STATE_INDEX + 1) |->
     IF i <= 64 THEN (IF (i - 1) \in DOMAIN pieces THEN pieces[i - 1] ELSE EMPTY)
     ELSE IF i = HALFMOVE_CLOCK_INDEX + 1 THEN clock
     ELSE IF i = HALFMOVE_COUNT_INDEX + 1 THEN count
     ELSE state]

StandardPieces ==
  [s \in (0..15) \cup (48..63) |->
     IF s \in 8..15 THEN -PAWN
     ELSE IF s \in 48..55 THEN PAWN
     ELSE LET back == <<ROOK, KNIGHT, BISHOP, QUEEN, KING, BISHOP, KNIGHT, ROOK>>
          IN  IF s < 8 THEN -back[s + 1] ELSE back[s - 55]]

\* the standard initial position
StandardPosition == Vector(StandardPieces, 0, 0, ALL_CASTLING_RIGHTS)

\* White to move and able to castle on both sides; the rook files are closed
WhiteCastlingPosition ==
  Vector(60 :> KING @@ 56 :> ROOK @@ 63 :> ROOK @@ 48 :> PAWN @@ 55 :> PAWN
           @@ 7 :> -KING @@ 40 :> -PAWN @@ 47 :> -PAWN,
         0, 0, WHITE_KING_SIDE_CASTLING + WHITE_QUEEN_SIDE_CASTLING)

\* Black to move and able to castle on both sides; the rook files are closed
BlackCastlingPosition ==
  Vector(63 :> KING @@ 16 :> PAWN @@ 23 :> PAWN
           @@ 4 :> -KING @@ 0 :> -ROOK @@ 7 :> -ROOK @@ 8 :> -PAWN @@ 15 :> -PAWN,
         7, 1, BLACK_KING_SIDE_CASTLING + BLACK_QUEEN_SIDE_CASTLING)

\* Black to move; a double push of either Black pawn allows an en passant capture
WhiteEnPassantPosition ==
  Vector(63 :> KING @@ 27 :> PAWN @@ 0 :> -KING @@ 10 :> -PAWN @@ 12 :> -PAWN,
         0, 1, 0)

\* White to move right after the Black double push 12 -> 28 (flag of file 4 set)
EnPassantFlagPosition ==
  Vector(63 :> KING @@ 27 :> PAWN @@ 0 :> -KING @@ 10 :> -PAWN @@ 28 :> -PAWN,
         0, 2, EN_PASSANT_BITMASKS[4])

\* White to move; a double push of either White pawn allows an en passant capture
BlackEnPassantPosition ==
  Vector(56 :> KING @@ 51 :> PAWN @@ 53 :> PAWN @@ 7 :> -KING @@ 36 :> -PAWN,
         5, 0, 0)

\* White to move; the pawn on 9 promotes on 1 or by capturing the rook on its corner
PromotionPosition ==
  Vector(63 :> KING @@ 9 :> PAWN @@ 16 :> PAWN
           @@ 4 :> -KING @@ 0 :> -ROOK @@ 8 :> -PAWN,
         3, 0, BLACK_QUEEN_SIDE_CASTLING)

\* Black to move; the pawn on 54 promotes on 62 or by capturing the rook on its corner
CornerCapturePosition ==
  Vector(60 :> KING @@ 63 :> ROOK @@ 55 :> PAWN
           @@ 4 :> -KING @@ 47 :> -PAWN @@ 54 :> -PAWN,
         0, 1, WHITE_KING_SIDE_CASTLING)

\* kings that can capture, a knight, and a halfmove clock close to 100
KingCapturePosition ==
  Vector(60 :> KING @@ 12 :> PAWN @@ 4 :> -KING @@ 52 :> -KNIGHT,
         98, 0, 0)

StartVectors ==
  {WhiteCastlingPosition, BlackCastlingPosition, WhiteEnPassantPosition,
   EnPassantFlagPosition, BlackEnPassantPosition, PromotionPosition,
   CornerCapturePosition, KingCapturePosition}

\* ------------------------------------------------------------------------
\* State machine
\* ------------------------------------------------------------------------

VARIABLES
  board,    \* the Board object
  calls,    \* the caller's stack of moves not yet undone, with the board before each
  lastOp,   \* the operation performed last
  ret,      \* the value returned by the last performMove
  popped    \* the call that the last undo operation took back (kind, board before it)

vars == <<board, calls, lastOp, ret, popped>>

NoCall == [kind |-> "none"]

\* the kind of move that performMove(pieceId, start, end) is on board b
MoveType(b, pieceId, start, end) ==
  LET piece == getItem(b, start)
  IN  IF abs(piece) = KING /\ abs(start - end) = 2 THEN "castling"
      ELSE IF abs(piece) = PAWN /\ pieceId # PAWN
        THEN (IF getItem(b, end) # EMPTY THEN "promotionCapture" ELSE "promotion")
      ELSE IF getItem(b, end) # EMPTY THEN "capture"
      ELSE IF abs(piece) = PAWN /\ abs(start - end) = 16 THEN "doublePush"
      ELSE IF abs(piece) = PAWN /\ abs(start - end) \in {7, 9} THEN "enPassant"
      ELSE "quiet"

\* what an undo operation leaves in `popped`: the kind of the call and the
\* board before it
Popped(c) ==
  IF c.kind = "move"
    THEN [kind |-> "move", type |-> c.type, before |-> c.before]
    ELSE [kind |-> "null", before |-> c.before]

Init ==
  /\ board \in {constructor(v) : v \in {w \in StartVectors : ~constructorThrows(w)}}
  /\ calls = <<>>
  /\ lastOp = "constructor"
  /\ ret = EMPTY
  /\ popped = NoCall

\* board.performMove(pieceId, start, end) with a legal move m of the side to
\* move: a pseudo-legal move after which the mover's king is not attacked
PerformMove ==
  /\ board.historyCounter < MaxPly
  /\ \E m \in PseudoLegalMoves(board) :
       \E r \in {performMove(board, m.pieceId, m.start, m.end)} :
         /\ ~isInCheck(r.board, getActivePlayer(board))
         /\ board' = r.board
         /\ ret' = r.ret
         /\ calls' = Append(calls,
              [kind |-> "move", type |-> MoveType(board, m.pieceId, m.start, m.end),
               piece |-> getItem(board, m.start), pieceId |-> m.pieceId,
               start |-> m.start, end |-> m.end, removed |-> r.ret, before |-> board])
  /\ lastOp' = "performMove"
  /\ popped' = NoCall

\* board.performNullMove(), called when the side to move is not in check
PerformNullMove ==
  /\ board.historyCounter < MaxPly
  /\ ~isInCheck(board, getActivePlayer(board))
  /\ board' = performNullMove(board)
  /\ calls' = Append(calls, [kind |-> "null", before |-> board])
  /\ lastOp' = "performNullMove"
  /\ popped' = NoCall
  /\ ret' = EMPTY

\* board.undoMove(piece, start, end, removed) for the move performed last:
\* the signed piece that stood on start, the same squares, performMove's result
UndoMove ==
  /\ calls # <<>>
  /\ calls[Len(calls)].kind = "move"
  /\ LET c == calls[Len(calls)]
     IN  board' = undoMove(board, c.piece, c.start, c.end, c.removed)
  /\ calls' = SubSeq(calls, 1, Len(calls) - 1)
  /\ lastOp' = "undoMove"
  /\ popped' = Popped(calls[Len(calls)])
  /\ ret' = EMPTY

\* board.undoNullMove() for the null move performed last
UndoNullMove ==
  /\ calls # <<>>
  /\ calls[Len(calls)].kind = "null"
  /\ board' = undoNullMove(board)
  /\ calls' = SubSeq(calls, 1, Len(calls) - 1)
  /\ lastOp' = "undoNullMove"
  /\ popped' = Popped(calls[Len(calls)])
  /\ ret' = EMPTY

\* board.recalculateHash(), called on a board that has been set up, before
\* moves are played on it
RecalculateHash ==
  /\ calls = <<>>
  /\ board' = recalculateHash(board)
  /\ lastOp' = "recalculateHash"
  /\ popped' = NoCall
  /\ ret' = EMPTY
  /\ UNCHANGED calls

Next ==
  \/ PerformMove
  \/ PerformNullMove
  \/ UndoMove
  \/ UndoNullMove
  \/ RecalculateHash

Spec == Init /\ [][Next]_vars

\* ------------------------------------------------------------------------
\* Definitions shared by the properties
\* ------------------------------------------------------------------------

\* the call performed last, when the last operation was a perform operation
Top == calls[Len(calls)]

AfterPerform == lastOp \in {"performMove", "performNullMove"}

\* the mailbox: the 64 board squares of items
Mailbox(b) == [s \in Squares |-> getItem(b, s)]

\* hash, scores, state flags, clock, count, mailbox, bitboards, king squares
BoardFields(b) ==
  [hashCode |-> b.hashCode, score |-> b.score, egScore |-> b.egScore,
   state |-> getState(b), halfMoveClock |-> b.halfMoveClock,
   halfMoveCount |-> b.halfMoveCount, mailbox |-> Mailbox(b),
   bitBoardPieces |-> b.bitBoardPieces, bitBoardAllPieces |-> b.bitBoardAllPieces,
   whiteKingIndex |-> b.whiteKingIndex, blackKingIndex |-> b.blackKingIndex]

RECURSIVE SumOver(_, _, _)
\* the sum of half(piece, square) over the squares S of board b
SumOver(b, S, mid) ==
  IF S = {} THEN 0
  ELSE LET s == CHOOSE x \in S : TRUE
           piece == getItem(b, s)
           packed == IF piece > 0
                       THEN WHITE_POSITION_SCORES[(piece * 64) + s]
                       ELSE BLACK_POSITION_SCORES[((-piece) * 64) + s]
           v == IF mid THEN unpackFirstScore(packed) ELSE unpackSecondScore(packed)
       IN  v + SumOver(b, S \ {s}, mid)

OccupiedSquares(b) == {s \in Squares : getItem(b, s) # EMPTY}

\* the stored hash is what recalculateHash would compute
HashConsistent(b) == b.hashCode = recalculateHash(b).hashCode

\* ------------------------------------------------------------------------
\* Properties
\* ------------------------------------------------------------------------

\* C1: every undoMove, called with the piece that stood on the start square,
\* the same squares and the value performMove returned, gives hash, scores,
\* state flags, clock, count, mailbox, bitboards and king squares the values
\* they had before the matching performMove; undoing a whole sequence in
\* reverse order therefore gives the values before its first move.
C1_UndoMoveRestoresBoard ==
  lastOp = "undoMove" => BoardFields(board) = BoardFields(popped.before)

\* an en passant capture played after a double push has been taken back
C1_Witness ==
  /\ lastOp = "undoMove"
  /\ popped.type = "enPassant"
  /\ Len(calls) = 1
  /\ calls[1].type = "doublePush"

\* C2: in every state the bitboards are the exact decomposition of the
\* mailbox: an occupied square is in exactly the piece bitboard of its piece
\* and in exactly the occupancy bitboard of its colour, an empty square in none.
C2_BitboardsDecomposeMailbox ==
  \A s \in Squares :
    LET piece == getItem(board, s)
        inPieces == {q \in -6..6 : s \in board.bitBoardPieces[q]}
        inColours == {c \in -1..1 : s \in board.bitBoardAllPieces[c]}
    IN  IF piece # EMPTY
          THEN inPieces = {piece} /\ inColours = {sign(piece)}
          ELSE inPieces = {} /\ inColours = {}

\* a capturing promotion has been taken back
C2_Witness ==
  /\ lastOp = "undoMove"
  /\ popped.type = "promotionCapture"

\* C3: in every state each colour has exactly one king in the mailbox and the
\* cached king index of the colour is the square of that king.
C3_KingIndexIsKingSquare ==
  /\ {s \in Squares : getItem(board, s) = KING} = {board.whiteKingIndex}
  /\ {s \in Squares : getItem(board, s) = -KING} = {board.blackKingIndex}

\* a king has captured a piece
C3_Witness ==
  /\ lastOp = "performMove"
  /\ Top.type = "capture"
  /\ Top.pieceId = KING

\* C4: in every state the midgame and endgame accumulators are the sums of
\* the piece-square entries over the occupied squares, modulo 2^16.
C4_ScoresMatchRebuild ==
  /\ board.score = ToI16(SumOver(board, OccupiedSquares(board), TRUE))
  /\ board.egScore = ToI16(SumOver(board, OccupiedSquares(board), FALSE))

\* an en passant capture has been performed
C4_Witness ==
  /\ lastOp = "performMove"
  /\ Top.type = "enPassant"

\* C5: in every state, the state after construction included, the stored hash
\* is the value recalculateHash would compute.
C5_HashAlwaysConsistent == HashConsistent(board)

\* C6: a performMove or performNullMove on a board whose hash is the value
\* recalculateHash would compute leaves such a board.
C6_HashStaysConsistent ==
  (AfterPerform /\ HashConsistent(Top.before)) => HashConsistent(board)

\* castling performed on a board with a consistent hash
C6_Witness ==
  /\ lastOp = "performMove"
  /\ Top.type = "castling"
  /\ HashConsistent(Top.before)

\* C7: after undoNullMove the board fields and the history depth are what
\* they were before the matching performNullMove.
C7_NullMoveRoundTrip ==
  lastOp = "undoNullMove" =>
    /\ BoardFields(board) = BoardFields(popped.before)
    /\ board.historyCounter = popped.before.historyCounter
    /\ board.positionHistory = popped.before.positionHistory

\* a null move played with an en passant flag set has been taken back
C7_Witness ==
  /\ lastOp = "undoNullMove"
  /\ getEnPassantStateBits(board) # 0

\* the en passant flag that a double push from `start` sets
DoublePushFlag(piece, start) ==
  IF piece > 0
    THEN EN_PASSANT_BITMASKS[8 + File(start)]
    ELSE EN_PASSANT_BITMASKS[File(start)]

\* C8: after a pawn double push the en passant flag of the pusher's file is
\* set, and no en passant flag set before a performMove or performNullMove
\* is set after it.
C8_EnPassantFlagLivesOnePly ==
  /\ (lastOp = "performMove" /\ Top.type = "doublePush")
       => HasBit(getState(board), DoublePushFlag(Top.piece, Top.start))
  /\ AfterPerform =>
       \A i \in 0..15 :
         HasBit(getState(Top.before), EN_PASSANT_BITMASKS[i])
           => ~HasBit(getState(board), EN_PASSANT_BITMASKS[i])

\* the ply after a double push has been played
C8_Witness ==
  /\ AfterPerform
  /\ Len(calls) >= 2
  /\ calls[Len(calls) - 1].kind = "move"
  /\ calls[Len(calls) - 1].type = "doublePush"
  /\ getEnPassantStateBits(Top.before) # 0
  /\ getEnPassantStateBits(board) = 0

\* a pawn moves diagonally, in its direction, onto an empty square
DiagonalOntoEmpty(b, start, end) ==
  /\ abs(getItem(b, start)) = PAWN
  /\ getItem(b, end) = EMPTY
  /\ (start - end) \in (IF getItem(b, start) > 0 THEN {7, 9} ELSE {-7, -9})

\* C9: performMove returns 0 when the destination was empty and the move is
\* no en passant capture, the magnitude of the piece on the destination when
\* it was occupied, and EN_PASSANT_BIT for a pawn moving diagonally onto an
\* empty square.
C9_ReturnValue ==
  lastOp = "performMove" =>
    LET b0 == Top.before
        dest == getItem(b0, Top.end)
    IN  /\ (dest = EMPTY /\ ~DiagonalOntoEmpty(b0, Top.start, Top.end)) => ret = EMPTY
        /\ dest # EMPTY => (ret = abs(dest) /\ ret \in 1..6)
        /\ DiagonalOntoEmpty(b0, Top.start, Top.end) => ret = EN_PASSANT_BIT

\* a Black piece has been captured
C9_Witness ==
  /\ lastOp = "performMove"
  /\ getItem(Top.before, Top.end) < 0
  /\ ret = abs(getItem(Top.before, Top.end))

\* the move performed last is a pawn move or a capture
PawnMoveOrCapture(c) ==
  abs(c.piece) = PAWN \/ getItem(c.before, c.end) # EMPTY

\* C10 as stated: a performMove that is neither a pawn move nor a capture
\* leaves the halfmove clock at the value it had before the call; pawn moves
\* and captures reset it to 0.
C10_ClockPreserved ==
  lastOp = "performMove" =>
    IF PawnMoveOrCapture(Top)
      THEN board.halfMoveClock = 0
      ELSE board.halfMoveClock = Top.before.halfMoveClock

\* C10 amended: a performMove that is neither a pawn move nor a capture
\* leaves the halfmove clock one above the value it had before the call
\* (as an i16); pawn moves and captures reset it to 0.
C10_ClockIncremented ==
  lastOp = "performMove" =>
    IF PawnMoveOrCapture(Top)
      THEN board.halfMoveClock = 0
      ELSE board.halfMoveClock = ToI16(Top.before.halfMoveClock + 1)

\* a knight or king move without capture from a clock of 98
C10_Witness ==
  /\ lastOp = "performMove"
  /\ ~PawnMoveOrCapture(Top)
  /\ Top.before.halfMoveClock = 98
  /\ board.halfMoveClock = 99

\* the calls still on the stack that were pawn moves or captures
ClockResets == {i \in 1..Len(calls) : calls[i].kind = "move" /\ PawnMoveOrCapture(calls[i])}

\* the last such call, 0 when there is none
LastClockReset ==
  IF ClockResets = {} THEN 0 ELSE CHOOSE i \in ClockResets : \A j \in ClockResets : j <= i

\* C11: along any sequence of performMove and performNullMove calls the
\* halfmove clock is the number of plies played since the last pawn move or
\* capture, or the clock the board was constructed with plus the plies played
\* when there was none: pawn moves (promotions and en passant captures too)
\* and captures make it 0, every other move and every null move adds 1.
C11_ClockCountsPliesSinceReset ==
  calls # <<>> =>
    IF ClockResets = {}
      THEN board.halfMoveClock = calls[1].before.halfMoveClock + Len(calls)
      ELSE board.halfMoveClock = Len(calls) - LastClockReset

\* a pawn move or capture, then a null move, then a move that is neither
C11_Witness ==
  /\ Len(calls) = 3
  /\ lastOp = "performMove"
  /\ ClockResets = {1}
  /\ calls[2].kind = "null"
  /\ calls[1].before.halfMoveClock > 2
  /\ board.halfMoveClock = 2

\* the corner the castling rook comes from when the king goes from start to end
CastlingCorner(start, end) ==
  IF start = WHITE_KING_START
    THEN (IF end > start THEN WHITE_KING_SIDE_ROOK_START ELSE WHITE_QUEEN_SIDE_ROOK_START)
    ELSE (IF end > start THEN BLACK_KING_SIDE_ROOK_START ELSE BLACK_QUEEN_SIDE_ROOK_START)

\* C12: after a king on its start square has moved two files with
\* performMove the king stands on the destination, the rook of its colour
\* has gone from the corner of that side to the square the king passed over,
\* the has-castled flag of the colour is set and both castling rights of the
\* colour are clear; undoMove for that move puts king and rook back and gives
\* state flags, hash and every other field their earlier values.
C12_CastlingMovesRook ==
  (lastOp = "performMove" /\ Top.type = "castling") =>
    /\ Top.start = (IF Top.piece > 0 THEN WHITE_KING_START ELSE BLACK_KING_START)
    /\ getItem(board, Top.end) = Top.piece
    /\ getItem(board, Top.start) = EMPTY
    /\ getItem(board, (Top.start + Top.end) \div 2) = ROOK * sign(Top.piece)
    /\ getItem(board, CastlingCorner(Top.start, Top.end)) = EMPTY
    /\ getItem(Top.before, CastlingCorner(Top.start, Top.end)) = ROOK * sign(Top.piece)
    /\ findKingPosition(board, sign(Top.piece)) = Top.end
    /\ IF Top.piece > 0
         THEN /\ hasWhiteCastled(board)
              /\ ~canWhiteCastleKingSide(board)
              /\ ~canWhiteCastleQueenSide(board)
         ELSE /\ hasBlackCastled(board)
              /\ ~canBlackCastleKingSide(board)
              /\ ~canBlackCastleQueenSide(board)
    /\ BoardFields(undoMove(board, Top.piece, Top.start, Top.end, ret))
         = BoardFields(Top.before)

\* White has castled queen-side with both rights set before: rook 56 -> 59
C12_Witness ==
  /\ lastOp = "performMove"
  /\ Top.type = "castling"
  /\ Top.start = WHITE_KING_START
  /\ Top.end = WHITE_KING_START - 2
  /\ canWhiteCastleKingSide(Top.before)
  /\ canWhiteCastleQueenSide(Top.before)
  /\ getItem(board, WHITE_KING_START - 1) = ROOK

Corners ==
  {WHITE_QUEEN_SIDE_ROOK_START, WHITE_KING_SIDE_ROOK_START,
   BLACK_QUEEN_SIDE_ROOK_START, BLACK_KING_SIDE_ROOK_START}

\* the castling right that belongs to a rook `piece` on corner pos, 0 if none
CornerRight(piece, pos) ==
  IF piece = ROOK /\ pos = WHITE_KING_SIDE_ROOK_START THEN WHITE_KING_SIDE_CASTLING
  ELSE IF piece = ROOK /\ pos = WHITE_QUEEN_SIDE_ROOK_START THEN WHITE_QUEEN_SIDE_CASTLING
  ELSE IF piece = -ROOK /\ pos = BLACK_KING_SIDE_ROOK_START THEN BLACK_KING_SIDE_CASTLING
  ELSE IF piece = -ROOK /\ pos = BLACK_QUEEN_SIDE_ROOK_START THEN BLACK_QUEEN_SIDE_CASTLING
  ELSE 0

\* the castling bits of board b with the castling right `right` cleared
CastlingBitsWithout(b, right) ==
  IF right # 0 /\ HasBit(getState(b), right)
    THEN getCastlingStateBits(b) - (right \div Pow2(CASTLING_BITSTART))
    ELSE getCastlingStateBits(b)

\* the pieces remove is applied with on corner pos: the piece standing there
\* and the two rooks on every board, all twelve pieces on the boards up to
\* one ply after construction
RemovedPieces(pos) ==
  IF Len(calls) <= 1
    THEN (-6..6) \ {EMPTY}
    ELSE {ROOK, -ROOK, getItem(board, pos)} \ {EMPTY}

\* C13: a rook of colour c that leaves one of c's corners by a performMove,
\* or is captured there, leaves the castling right of c for that side clear;
\* removing a piece from a corner changes no castling right but the one of
\* that corner when the piece is the rook of the corner's colour, and no
\* castling right at all when it is any other piece or a rook of the other
\* colour.
C13_RookLeavingCornerClearsRight ==
  /\ lastOp = "performMove" =>
       \A pos \in Corners \cap {Top.start, Top.end} :
         CornerRight(getItem(Top.before, pos), pos) # 0 =>
           ~HasBit(getState(board), CornerRight(getItem(Top.before, pos), pos))
  /\ \A pos \in Corners : \A piece \in RemovedPieces(pos) :
       getCastlingStateBits(remove(board, piece, sign(piece), pos))
         = CastlingBitsWithout(board, CornerRight(piece, pos))

\* a White rook has been captured on 63 while White could castle king-side
C13_Witness ==
  /\ lastOp = "performMove"
  /\ Top.end = WHITE_KING_SIDE_ROOK_START
  /\ getItem(Top.before, Top.end) = ROOK
  /\ Top.piece < 0
  /\ canWhiteCastleKingSide(Top.before)
  /\ ~canWhiteCastleKingSide(board)

\* the square of the pawn taken en passant by the pawn going start -> end
EnPassantVictim(piece, start, end) ==
  IF piece > 0
    THEN (IF start - end = 7 THEN start + 1 ELSE start - 1)
    ELSE (IF start - end = -7 THEN start - 1 ELSE start + 1)

\* C14: for a pawn that moved diagonally onto an empty square performMove
\* has emptied the square beside the start square on the destination's file
\* (White: start+1 for start-end = 7, start-1 for 9; Black: start-1 for -7,
\* start+1 for -9) and returned EN_PASSANT_BIT, and undoMove with
\* EN_PASSANT_BIT puts an enemy pawn back on exactly that square.
C14_EnPassantVictimSquare ==
  (lastOp = "performMove" /\ DiagonalOntoEmpty(Top.before, Top.start, Top.end)) =>
    /\ ret = EN_PASSANT_BIT
    /\ File(EnPassantVictim(Top.piece, Top.start, Top.end)) = File(Top.end)
    /\ Rank(EnPassantVictim(Top.piece, Top.start, Top.end)) = Rank(Top.start)
    /\ getItem(board, EnPassantVictim(Top.piece, Top.start, Top.end)) = EMPTY
    /\ \A s \in Squares \ {Top.start, Top.end,
                           EnPassantVictim(Top.piece, Top.start, Top.end)} :
         getItem(board, s) = getItem(Top.before, s)
    /\ \A s \in Squares \ {Top.start, Top.end} :
         getItem(undoMove(board, Top.piece, Top.start, Top.end, EN_PASSANT_BIT), s)
           = IF s = EnPassantVictim(Top.piece, Top.start, Top.end)
               THEN -PAWN * sign(Top.piece)
               ELSE getItem(board, s)

\* White 27 -> 20 has taken the Black pawn that had just been pushed to 28
C14_Witness ==
  /\ lastOp = "performMove"
  /\ Top.piece = PAWN
  /\ Top.start = 27
  /\ Top.end = 20
  /\ getItem(Top.before, 28) = -PAWN
  /\ getItem(board, 28) = EMPTY
  /\ ret = EN_PASSANT_BIT

\* C15: a pawn double push performed on a board with no en passant flag set
\* adds 1 to halfMoveCount, makes halfMoveClock 0, sets exactly the en
\* passant bit of the pusher's file (bit 21 + file for White, 13 + file for
\* Black), and the new hash is the old hash XOR the pawn's token on the start
\* square XOR its token on the end square XOR the side-to-move token XOR the
\* en passant token of that flag, and nothing else.
C15_DoublePushFlagAndHash ==
  (/\ lastOp = "performMove"
   /\ Top.type = "doublePush"
   /\ getEnPassantStateBits(Top.before) = 0) =>
    /\ board.halfMoveCount = Top.before.halfMoveCount + 1
    /\ board.halfMoveClock = 0
    /\ getEnPassantStateBits(board) * Pow2(EN_PASSANT_BITSTART)
         = Pow2((IF Top.piece > 0 THEN 21 ELSE 13) + File(Top.start))
    /\ board.hashCode
         = Xor(Xor(Xor(Xor(Top.before.hashCode,
                           PIECE_RNG_NUMBERS(((Top.piece + 6) * 64) + Top.start)),
                       PIECE_RNG_NUMBERS(((Top.piece + 6) * 64) + Top.end)),
                   PLAYER_RNG_NUMBER),
               EN_PASSANT_RNG_NUMBERS(
                 (IF Top.piece > 0 THEN 8 ELSE 0) + File(Top.start)))

\* a Black pawn has been pushed two squares with no flag set before
C15_Witness ==
  /\ lastOp = "performMove"
  /\ Top.type = "doublePush"
  /\ Top.piece = -PAWN
  /\ getEnPassantStateBits(Top.before) = 0
  /\ getEnPassantStateBits(board) # 0

\* ------------------------------------------------------------------------
\* Construction: new Board(items) on arbitrary vectors
\* ------------------------------------------------------------------------

MaxLenDelta == 1

\* fault: the length is checked after items has been allocated
construct_AllocatesFirst(v) ==
  IF Len(v) < STATE_INDEX + 1
    THEN [error |-> "Invalid board item length", board |-> NewBoard(v)]
  ELSE IF findIndex(v, KING) = -1
    THEN [error |-> "White king is missing on the board",
          board |-> [NewBoard(v) EXCEPT !.whiteKingIndex = -1,
                                        !.blackKingIndex = findIndex(v, -KING)]]
  ELSE IF findIndex(v, -KING) = -1
    THEN [error |-> "Black king is missing on the board!",
          board |-> [NewBoard(v) EXCEPT !.whiteKingIndex = findIndex(v, KING),
                                        !.blackKingIndex = -1]]
  ELSE [error |-> "", board |-> constructor(v)]

\* new Board(items): the error thrown ("" when none is) and the fields of the
\* object at that point
construct(v) ==
  IF Len(v) < STATE_INDEX + 1
    THEN [error |-> "Invalid board item length", board |-> NewBoard(<<>>)]
  ELSE IF findIndex(v, KING) = -1
    THEN [error |-> "White king is missing on the board",
          board |-> [NewBoard(v) EXCEPT !.whiteKingIndex = -1,
                                        !.blackKingIndex = findIndex(v, -KING)]]
  ELSE IF findIndex(v, -KING) = -1
    THEN [error |-> "Black king is missing on the board!",
          board |-> [NewBoard(v) EXCEPT !.whiteKingIndex = findIndex(v, KING),
                                        !.blackKingIndex = -1]]
  ELSE [error |-> "", board |-> constructor(v)]

\* the 64 squares of the vectors: both kings, one king, no king
SquareSettings ==
  {60 :> KING @@ 4 :> -KING @@ 52 :> PAWN @@ 12 :> -PAWN,
   63 :> KING @@ 0 :> -KING,
   60 :> KING @@ 12 :> -PAWN,
   4 :> -KING @@ 52 :> PAWN @@ 0 :> -ROOK,
   52 :> PAWN @@ 12 :> -QUEEN}

\* values of the entries 64..66, the king codes 6 and -6 among them
TrailerValues == {0, 1, KING, -KING}

\* a 67-entry vector cut or extended to n entries
Resized(v, n) == [i \in 1..n |-> IF i <= Len(v) THEN v[i] ELSE 0]

ConstructVectors ==
  {Resized(Vector(sq, clock, count, state), n) :
     sq \in SquareSettings, clock \in TrailerValues, count \in TrailerValues,
     state \in TrailerValues,
     n \in {0, 64} \cup ((STATE_INDEX + 1 - MaxLenDelta)..(STATE_INDEX + 1 + MaxLenDelta))}

InitConstruct ==
  /\ board = NewBoard(<<>>)
  /\ calls = <<>>
  /\ lastOp = "none"
  /\ ret = ""
  /\ popped = NoCall

\* new Board(items) returns a Board
ConstructBoard ==
  /\ lastOp = "none"
  /\ \E v \in ConstructVectors :
       \E r \in {construct(v)} :
         /\ r.error = ""
         /\ board' = r.board
         /\ ret' = r.error
         /\ calls' = <<[kind |-> "new", items |-> v]>>
  /\ lastOp' = "constructor"
  /\ popped' = NoCall

\* new Board(items) throws; board holds the fields as they are at the throw
ConstructThrows ==
  /\ lastOp = "none"
  /\ \E v \in ConstructVectors :
       \E r \in {construct(v)} :
         /\ r.error # ""
         /\ board' = r.board
         /\ ret' = r.error
         /\ calls' = <<[kind |-> "new", items |-> v]>>
  /\ lastOp' = "constructor"
  /\ popped' = NoCall

NextConstruct ==
  \/ ConstructBoard
  \/ ConstructThrows

SpecConstruct == InitConstruct /\ [][NextConstruct]_vars

\* piece stands on one of the squares 0..63 of the vector v
OnSquares(v, piece) == \E i \in 1..64 : i <= Len(v) /\ v[i] = piece

\* C16: constructing a Board from a vector whose squares 0..63 hold no White
\* king, or no Black king, fails with an error whatever the entries 64..66
\* are, and no Board with a cached king index outside 0..63 is produced.
C16_MissingKingFails ==
  lastOp = "constructor" =>
    /\ (~OnSquares(Top.items, KING) \/ ~OnSquares(Top.items, -KING)) => ret # ""
    /\ ret = "" => /\ board.whiteKingIndex \in Squares
                   /\ board.blackKingIndex \in Squares

\* C17: constructing a Board from a vector with fewer than 67 entries fails
\* with an error while every field still has its initial value; constructing
\* from a vector of 67 entries that holds both kings succeeds.
C17_ShortVectorFails ==
  lastOp = "constructor" =>
    /\ Len(Top.items) < 67 =>
         /\ ret = "Invalid board item length"
         /\ board = NewBoard(<<>>)
    /\ (/\ Len(Top.items) = 67
        /\ \E i \in 1..67 : Top.items[i] = KING
        /\ \E i \in 1..67 : Top.items[i] = -KING) => ret = ""

\* a vector of 66 entries with both kings on the board has been refused
C17_Witness ==
  /\ lastOp = "constructor"
  /\ Len(Top.items) = 66
  /\ OnSquares(Top.items, KING)
  /\ OnSquares(Top.items, -KING)
  /\ ret = "Invalid board item length"

\* C38 as stated: for a Board constructed from a vector of 67 or more
\* entries, getState() right after construction returns the vector's entry
\* at index 66, and the slot that getState, setState, setStateBit,
\* clearStateBit and clearEnPassentPossible address (the last entry of
\* items) is the slot the constructor initialised (items[STATE_INDEX]).
C38_StateSlotOfLongVector ==
  (lastOp = "constructor" /\ ret = "") =>
    /\ getState(board) = Top.items[STATE_INDEX + 1]
    /\ Len(board.items) - 1 = STATE_INDEX
    /\ setState(board, 1).items[STATE_INDEX + 1] = 1

\* ------------------------------------------------------------------------
\* Queries: findSmallestAttacker, isAttacked, isInCheck and seeScore on
\* constructed boards
\* ------------------------------------------------------------------------

MaxRemoved == 2

\* an exchange on 27: the Black pawn there is defended by the pawns on 18 and
\* 20 and, behind the pawn on 18, by the bishop on 9; it is attacked by the
\* White pawn on 36, the knight on 44 and the rook on 59
ExchangePosition ==
  Vector(63 :> KING @@ 36 :> PAWN @@ 44 :> KNIGHT @@ 59 :> ROOK
           @@ 7 :> -KING @@ 0 :> -ROOK @@ 9 :> -BISHOP @@ 18 :> -PAWN
           @@ 20 :> -PAWN @@ 27 :> -PAWN,
         0, 0, 0)

\* undefended pieces next to each other, the White king in check by the queen
LoosePiecesPosition ==
  Vector(60 :> KING @@ 56 :> ROOK @@ 49 :> PAWN
           @@ 6 :> -KING @@ 57 :> -QUEEN @@ 40 :> -PAWN,
         0, 1, 0)

QueryVectors == {ExchangePosition, LoosePiecesPosition}

\* the occupancy with up to MaxRemoved pieces taken off, as seeScore passes it
OccupiedSets(b) ==
  {getOccupancyBitboard(b) \ R :
     R \in {Q \in SUBSET getOccupancyBitboard(b) : Cardinality(Q) <= MaxRemoved}}

\* the squares strictly between s and t, n steps apart in direction (dr, df)
Between(s, dr, df, n) ==
  {(Rank(s) + k * dr) * 8 + (File(s) + k * df) : k \in 1..(n - 1)}

\* a piece `piece` on s attacks the square dr ranks and df files away when the
\* squares of `occupied` block sliding pieces
Reaches(piece, occupied, s, dr, df) ==
  IF abs(piece) = PAWN THEN dr = -sign(piece) /\ abs(df) = 1
  ELSE IF abs(piece) = KNIGHT THEN {abs(dr), abs(df)} = {1, 2}
  ELSE IF abs(piece) = KING THEN {abs(dr), abs(df)} \in {{0, 1}, {1}}
  ELSE IF abs(piece) \in {BISHOP, ROOK, QUEEN}
    THEN /\ \/ abs(piece) # ROOK /\ abs(dr) = abs(df) /\ dr # 0
            \/ abs(piece) # BISHOP /\ (dr = 0) # (df = 0)
         /\ Between(s, sign(dr), sign(df), IF dr # 0 THEN abs(dr) ELSE abs(df))
              \cap occupied = {}
  ELSE FALSE

\* the squares of `occupied` from which a piece of colour `color` attacks pos
Attackers(b, occupied, color, pos) ==
  {s \in occupied :
     /\ sign(getItem(b, s)) = color
     /\ Reaches(getItem(b, s), occupied, s, Rank(pos) - Rank(s), File(pos) - File(s))}

\* the captures of the side `color`: an own piece attacks an enemy piece
Captures(b, color) ==
  {c \in Squares \X Squares :
     /\ sign(getItem(b, c[1])) = color
     /\ sign(getItem(b, c[2])) = -color
     /\ abs(getItem(b, c[2])) # KING
     /\ c[1] \in Attackers(b, getOccupancyBitboard(b), color, c[2])}

InitQuery ==
  /\ board \in {constructor(v) : v \in QueryVectors}
  /\ calls = <<>>
  /\ lastOp = "constructor"
  /\ ret = EMPTY
  /\ popped = NoCall

\* board.findSmallestAttacker(occupied, color, pos)
FindSmallestAttacker ==
  /\ lastOp = "constructor"
  /\ \E occupied \in OccupiedSets(board), color \in {WHITE, BLACK}, pos \in Squares :
       /\ ret' = findSmallestAttacker(board, occupied, color, pos)
       /\ calls' = <<[kind |-> "findSmallestAttacker", occupied |-> occupied,
                      color |-> color, pos |-> pos]>>
  /\ lastOp' = "findSmallestAttacker"
  /\ UNCHANGED <<board, popped>>

\* board.isAttacked(color, pos)
IsAttacked ==
  /\ lastOp = "constructor"
  /\ \E color \in {WHITE, BLACK}, pos \in Squares :
       /\ ret' = isAttacked(board, color, pos)
       /\ calls' = <<[kind |-> "isAttacked", color |-> color, pos |-> pos]>>
  /\ lastOp' = "isAttacked"
  /\ UNCHANGED <<board, popped>>

\* board.isInCheck(color)
IsInCheck ==
  /\ lastOp = "constructor"
  /\ \E color \in {WHITE, BLACK} :
       /\ ret' = isInCheck(board, color)
       /\ calls' = <<[kind |-> "isInCheck", color |-> color]>>
  /\ lastOp' = "isInCheck"
  /\ UNCHANGED <<board, popped>>

\* board.seeScore(-color, from, target, own piece id, captured piece id) for a
\* capture from -> target of the side `color`
SeeScore ==
  /\ lastOp = "constructor"
  /\ \E color \in {WHITE, BLACK} :
       \E c \in Captures(board, color) :
         /\ ret' = seeScore(board, -color, c[1], c[2],
                            abs(getItem(board, c[1])), abs(getItem(board, c[2])))
         /\ calls' = <<[kind |-> "seeScore", color |-> color,
                        from |-> c[1], target |-> c[2]]>>
  /\ lastOp' = "seeScore"
  /\ UNCHANGED <<board, popped>>

NextQuery ==
  \/ FindSmallestAttacker
  \/ IsAttacked
  \/ IsInCheck
  \/ SeeScore

SpecQuery == InitQuery /\ [][NextQuery]_vars

RECURSIVE SwapOffGain(_, _, _, _, _)

\* what the side to move wins on `target` when its cheapest attacker is on
\* attackerPos: nothing without attacker or when taking loses material
SwapOffGainWith(b, occupied, side, target, valueOnTarget, attackerPos) ==
  IF attackerPos < 0 THEN 0
  ELSE IF valueOnTarget
            - SwapOffGain(b, occupied \ {attackerPos}, -side, target,
                          valueOn(b, attackerPos)) > 0
    THEN valueOnTarget
           - SwapOffGain(b, occupied \ {attackerPos}, -side, target,
                         valueOn(b, attackerPos))
  ELSE 0

\* the minimax swap-off: `side` takes the piece worth valueOnTarget with its
\* cheapest attacker, or does not take when that would leave it worse off
SwapOffGain(b, occupied, side, target, valueOnTarget) ==
  SwapOffGainWith(b, occupied, side, target, valueOnTarget,
                  findSmallestAttacker(b, occupied, side, target))

\* the net material gain of the capture from -> target by the side `color`
SwapOffValue(b, color, from, target) ==
  valueOn(b, target)
    - SwapOffGain(b, getOccupancyBitboard(b) \ {from}, -color, target, valueOn(b, from))

\* C18: the sign of seeScore's result is the sign of the minimax swap-off
\* value of the capture (each side recaptures with its cheapest attacker and
\* may stop whenever going on would leave it worse off), for every position
\* and capture.
C18_SeeSignIsSwapOffSign ==
  lastOp = "seeScore" =>
    sign(ret) = sign(SwapOffValue(board, Top.color, Top.from, Top.target))

\* the least piece type among the attackers A of board b, 0 when A is empty
CheapestType(b, A) ==
  IF A = {} THEN 0
  ELSE CHOOSE t \in 1..6 :
         /\ \E s \in A : abs(getItem(b, s)) = t
         /\ \A s \in A : abs(getItem(b, s)) >= t

\* the attackers of the capture's target that recapture for the other side
Defenders ==
  Attackers(board, getOccupancyBitboard(board) \ {Top.from}, -Top.color, Top.target)

\* C19: with v_own the value of the capturing piece, v_cap that of the
\* captured piece and a that of the opponent's cheapest attacker of the
\* target, seeScore returns v_cap - v_own when v_cap - v_own + a < 0, and
\* v_cap when the opponent has no attacker of the target.
C19_SeeEarlyExits ==
  lastOp = "seeScore" =>
    /\ Defenders = {} => ret = valueOn(board, Top.target)
    /\ (/\ Defenders # {}
        /\ valueOn(board, Top.target) - valueOn(board, Top.from)
             + PIECE_VALUES[CheapestType(board, Defenders) + 1] < 0)
         => ret = valueOn(board, Top.target) - valueOn(board, Top.from)

\* the knight on 44 has taken the pawn on 27, which a pawn defends: -220
C19_Witness ==
  /\ lastOp = "seeScore"
  /\ getItem(board, Top.from) = KNIGHT
  /\ getItem(board, Top.target) = -PAWN
  /\ CheapestType(board, Defenders) = PAWN
  /\ ret = PIECE_VALUES[PAWN + 1] - PIECE_VALUES[KNIGHT + 1]

\* the square of the king of colour c in the mailbox
KingSquare(b, c) == CHOOSE s \in Squares : getItem(b, s) = KING * c

\* C20: findSmallestAttacker(occupied, colour, target) is -1 iff no piece of
\* the colour standing on a square of `occupied` attacks target, sliding
\* pieces being blocked by the squares of `occupied` only; otherwise it is
\* the square of such an attacker of least piece type (pawn < knight < bishop
\* < rook < queen < king), which the mailbox holds there. isAttacked(colour,
\* sq) is true iff there is such an attacker for the full occupancy, and
\* isInCheck(c) is isAttacked(-c, king square of c).
C20_SmallestAttacker ==
  /\ lastOp = "findSmallestAttacker" =>
       /\ (ret = -1) = (Attackers(board, Top.occupied, Top.color, Top.pos) = {})
       /\ ret # -1 =>
            /\ ret \in Attackers(board, Top.occupied, Top.color, Top.pos)
            /\ sign(getItem(board, ret)) = Top.color
            /\ abs(getItem(board, ret))
                 = CheapestType(board, Attackers(board, Top.occupied, Top.color, Top.pos))
  /\ lastOp = "isAttacked" =>
       /\ ret = (Attackers(board, getOccupancyBitboard(board), Top.color, Top.pos) # {})
       /\ ret = (findSmallestAttacker(board, getOccupancyBitboard(board),
                                      Top.color, Top.pos) >= 0)
  /\ lastOp = "isInCheck" =>
       /\ ret = isAttacked(board, -Top.color, KingSquare(board, Top.color))
       /\ ret = (Attackers(board, getOccupancyBitboard(board), -Top.color,
                           KingSquare(board, Top.color)) # {})

\* with the pawns on 18 and 20 off the occupancy the bishop on 9, no longer
\* blocked on 18, is the cheapest Black attacker of 27
C20_Witness ==
  /\ lastOp = "findSmallestAttacker"
  /\ Top.color = BLACK
  /\ Top.pos = 27
  /\ Top.occupied = getOccupancyBitboard(board) \ {18, 20}
  /\ getItem(board, 9) = -BISHOP
  /\ ret = 9

\* ------------------------------------------------------------------------
\* Board: draw detection
\* ------------------------------------------------------------------------

\* the squares a8, c8, ..., h1 (bitboard)
LIGHT_COLORED_FIELD_PATTERN == {s \in Squares : (Rank(s) + File(s)) % 2 = 0}

DARK_COLORED_FIELD_PATTERN == Squares \ LIGHT_COLORED_FIELD_PATTERN

\* fault: the bishops are only compared on the light squares
isInsufficientMaterialDraw_LightOnly(b) ==
  IF popcnt(getOccupancyBitboard(b)) = 2 THEN TRUE
  ELSE IF popcnt(getOccupancyBitboard(b)) = 3
    THEN (getBitBoard(b, KNIGHT) \cup getBitBoard(b, -KNIGHT)
            \cup getBitBoard(b, BISHOP) \cup getBitBoard(b, -BISHOP)) # {}
  ELSE IF popcnt(getOccupancyBitboard(b)) = 4
    THEN /\ BitAnd(getBitBoard(b, BISHOP), LIGHT_COLORED_FIELD_PATTERN) # {}
         /\ BitAnd(getBitBoard(b, -BISHOP), LIGHT_COLORED_FIELD_PATTERN) # {}
  ELSE FALSE

isInsufficientMaterialDraw(b) ==
  IF popcnt(getOccupancyBitboard(b)) = 2 THEN TRUE
  ELSE IF popcnt(getOccupancyBitboard(b)) = 3
    THEN (getBitBoard(b, KNIGHT) \cup getBitBoard(b, -KNIGHT)
            \cup getBitBoard(b, BISHOP) \cup getBitBoard(b, -BISHOP)) # {}
  ELSE IF popcnt(getOccupancyBitboard(b)) = 4
    THEN \/ /\ BitAnd(getBitBoard(b, BISHOP), LIGHT_COLORED_FIELD_PATTERN) # {}
            /\ BitAnd(getBitBoard(b, -BISHOP), LIGHT_COLORED_FIELD_PATTERN) # {}
         \/ /\ BitAnd(getBitBoard(b, BISHOP), DARK_COLORED_FIELD_PATTERN) # {}
            /\ BitAnd(getBitBoard(b, -BISHOP), DARK_COLORED_FIELD_PATTERN) # {}
  ELSE FALSE

isFiftyMoveDraw(b) == getHalfMoveClock(b) >= 100

\* ------------------------------------------------------------------------
\* Evaluation queries: isInsufficientMaterialDraw and getScore on constructed
\* boards
\* ------------------------------------------------------------------------

\* ------------------------------------------------------------------------
\* Board: evaluation
\* ------------------------------------------------------------------------

DOUBLED_PAWN_PENALTY == 6

PASSED_PAWN_BONUS == 25

KING_SHIELD_BONUS == 21

PAWNLESS_DRAW_SCORE_LOW_THRESHOLD == 100

PAWNLESS_DRAW_SCORE_HIGH_THRESHOLD == 400

PAWNLESS_DRAW_CLOCK_THRESHOLD == 64

CASTLING_BONUS == 28

LOST_QUEENSIDE_CASTLING_PENALTY == 18

LOST_KINGSIDE_CASTLING_PENALTY == 21

KING_DANGER_THRESHOLD == 1

KING_DANGER_PIECE_PENALTY == 21

PAWN_COVER_BONUS == 14

KNIGHT_MOB_BONUS == 5

BISHOP_MOB_BONUS == 5

ROOK_MOB_BONUS == 5

QUEEN_MOB_BONUS == 5

\* i32 division, truncating toward zero (divisor positive)
DivI32(a, d) == IF a >= 0 THEN a \div d ELSE -((-a) \div d)

\* the two ranks in front of a White king, on its file and the files next to it
WHITE_KING_SHIELD_PATTERNS(pos) ==
  {s \in Squares : Rank(pos) - Rank(s) \in {1, 2} /\ abs(File(s) - File(pos)) <= 1}

\* the two ranks in front of a Black king, on its file and the files next to it
BLACK_KING_SHIELD_PATTERNS(pos) ==
  {s \in Squares : Rank(s) - Rank(pos) \in {1, 2} /\ abs(File(s) - File(pos)) <= 1}

\* the squares at most two ranks and two files away from the king
KING_DANGER_ZONE_PATTERNS(pos) ==
  {s \in Squares : abs(Rank(s) - Rank(pos)) <= 2 /\ abs(File(s) - File(pos)) <= 2}

\* the squares of the file of pos in front of a White pawn on pos
WHITE_PAWN_FREEPATH_PATTERNS(pos) ==
  {s \in Squares : File(s) = File(pos) /\ Rank(s) < Rank(pos)}

\* the squares of the file of pos in front of a Black pawn on pos
BLACK_PAWN_FREEPATH_PATTERNS(pos) ==
  {s \in Squares : File(s) = File(pos) /\ Rank(s) > Rank(pos)}

\* rotr(bb, n) for n a multiple of 8: bit i of the result is bit (i + n) % 64
rotr(bb, n) == {(s + 64 - n) % 64 : s \in bb}

calcDoubledPawnPenalty(pawns) ==
  popcnt(BitAnd(pawns, rotr(pawns, 8)) \cup BitAnd(pawns, rotr(pawns, 16))
           \cup BitAnd(pawns, rotr(pawns, 24)) \cup BitAnd(pawns, rotr(pawns, 32)))
    * DOUBLED_PAWN_PENALTY

\* getScore: the king shield terms added to the midgame score
kingShieldScore(b) ==
  (popcnt(BitAnd(getBitBoard(b, PAWN), WHITE_KING_SHIELD_PATTERNS(b.whiteKingIndex)))
     * KING_SHIELD_BONUS)
  - (popcnt(BitAnd(getBitBoard(b, -PAWN), BLACK_KING_SHIELD_PATTERNS(b.blackKingIndex)))
       * KING_SHIELD_BONUS)

\* fault: Black's lost king-side castling costs what the queen side costs
castlingScore_BlackSidesAlike(b) ==
  (IF hasWhiteCastled(b) THEN CASTLING_BONUS
   ELSE - (IF ~canWhiteCastleQueenSide(b) THEN LOST_QUEENSIDE_CASTLING_PENALTY ELSE 0)
        - (IF ~canWhiteCastleKingSide(b) THEN LOST_KINGSIDE_CASTLING_PENALTY ELSE 0))
  + (IF hasBlackCastled(b) THEN -CASTLING_BONUS
     ELSE (IF ~canBlackCastleQueenSide(b) THEN LOST_QUEENSIDE_CASTLING_PENALTY ELSE 0)
          + (IF ~canBlackCastleKingSide(b) THEN LOST_QUEENSIDE_CASTLING_PENALTY ELSE 0))

\* getScore: the castling terms added to the midgame score
castlingScore(b) ==
  (IF hasWhiteCastled(b) THEN CASTLING_BONUS
   ELSE - (IF ~canWhiteCastleQueenSide(b) THEN LOST_QUEENSIDE_CASTLING_PENALTY ELSE 0)
        - (IF ~canWhiteCastleKingSide(b) THEN LOST_KINGSIDE_CASTLING_PENALTY ELSE 0))
  + (IF hasBlackCastled(b) THEN -CASTLING_BONUS
     ELSE (IF ~canBlackCastleQueenSide(b) THEN LOST_QUEENSIDE_CASTLING_PENALTY ELSE 0)
          + (IF ~canBlackCastleKingSide(b) THEN LOST_KINGSIDE_CASTLING_PENALTY ELSE 0))

\* getScore: phase
phase(b) ==
  popcnt(getBitBoard(b, PAWN) \cup getBitBoard(b, -PAWN))
    + (IF getBitBoard(b, QUEEN) # {} THEN 1 ELSE 0) * 4
    + (IF getBitBoard(b, -QUEEN) # {} THEN 1 ELSE 0) * 4

\* ((score * phase) + (egScore * egPhase)) / 24
interpolate(score, egScore, ph) == DivI32((score * ph) + (egScore * (24 - ph)), 24)

\* getScore: interpolatedScore when it is first assigned
interpolatedScore(b) ==
  interpolate(b.score + kingShieldScore(b) + castlingScore(b), b.egScore, phase(b))

whitePawnAttacks(b) ==
  whiteLeftPawnAttacks(getBitBoard(b, PAWN)) \cup whiteRightPawnAttacks(getBitBoard(b, PAWN))

blackPawnAttacks(b) ==
  blackLeftPawnAttacks(getBitBoard(b, -PAWN)) \cup blackRightPawnAttacks(getBitBoard(b, -PAWN))

\* getScore: pawn cover bonus
pawnCoverScore(b) ==
  (popcnt(BitAnd(getBitBoard(b, PAWN) \cup getBitBoard(b, KNIGHT), whitePawnAttacks(b)))
     * PAWN_COVER_BONUS)
  - (popcnt(BitAnd(getBitBoard(b, -PAWN) \cup getBitBoard(b, -KNIGHT), blackPawnAttacks(b)))
       * PAWN_COVER_BONUS)

\* getScore: doubled pawn penalty
doubledPawnScore(b) ==
  calcDoubledPawnPenalty(getBitBoard(b, -PAWN)) - calcDoubledPawnPenalty(getBitBoard(b, PAWN))

\* mobilityScore: possibleMoves of a piece of the class on pos
possibleMoves(pieceId, occupied, pos) ==
  IF pieceId = KNIGHT THEN KNIGHT_PATTERNS(pos)
  ELSE IF pieceId = BISHOP
    THEN diagonalAttacks(occupied, pos) \cup antiDiagonalAttacks(occupied, pos)
  ELSE IF pieceId = ROOK
    THEN horizontalAttacks(occupied, pos) \cup verticalAttacks(occupied, pos)
  ELSE horizontalAttacks(occupied, pos) \cup verticalAttacks(occupied, pos)
         \cup diagonalAttacks(occupied, pos) \cup antiDiagonalAttacks(occupied, pos)

MOB_BONUS(pieceId) ==
  IF pieceId = KNIGHT THEN KNIGHT_MOB_BONUS
  ELSE IF pieceId = BISHOP THEN BISHOP_MOB_BONUS
  ELSE IF pieceId = ROOK THEN ROOK_MOB_BONUS
  ELSE QUEEN_MOB_BONUS

RECURSIVE mobilityLoop(_, _, _, _)
\* mobilityScore: one while loop; the sum of moveCount * bonus over the pieces
mobilityLoop(pieceId, pieces, occupied, safeTargets) ==
  IF pieces = {} THEN 0
  ELSE (popcnt(BitAnd(possibleMoves(pieceId, occupied, ctzBB(pieces)), safeTargets))
          * MOB_BONUS(pieceId))
       + mobilityLoop(pieceId, pieces \ {ctzBB(pieces)}, occupied, safeTargets)

\* mobilityScore: the attacks accumulated by one while loop
loopAttacks(pieceId, pieces, occupied) ==
  UNION {possibleMoves(pieceId, occupied, pos) : pos \in pieces}

\* mobilityScore: the safe targets of a side when the loop of the piece class
\* runs: empty and enemy squares, less the enemy pawn attacks, less the
\* attacks of the enemy pieces of the classes before
safeTargets(b, color, pieceId, enemyPawnAttacks, ownPieces, occupied) ==
  ((Squares \ ownPieces) \ enemyPawnAttacks)
    \ UNION {loopAttacks(p, getBitBoard(b, -color * p), occupied) :
               p \in {q \in {KNIGHT, BISHOP, ROOK} : q < pieceId}}

\* mobilityScore: the two loops of one piece class
classMobility(b, pieceId, whitePA, blackPA, whitePieces, blackPieces) ==
  mobilityLoop(pieceId, getBitBoard(b, pieceId), whitePieces \cup blackPieces,
               safeTargets(b, WHITE, pieceId, blackPA, whitePieces, whitePieces \cup blackPieces))
  - mobilityLoop(pieceId, getBitBoard(b, -pieceId), whitePieces \cup blackPieces,
                 safeTargets(b, BLACK, pieceId, whitePA, blackPieces, whitePieces \cup blackPieces))

mobilityScore(b, whitePA, blackPA, whitePieces, blackPieces) ==
  classMobility(b, KNIGHT, whitePA, blackPA, whitePieces, blackPieces)
    + classMobility(b, BISHOP, whitePA, blackPA, whitePieces, blackPieces)
    + classMobility(b, ROOK, whitePA, blackPA, whitePieces, blackPieces)
    + classMobility(b, QUEEN, whitePA, blackPA, whitePieces, blackPieces)

\* getScore: the score before the passed pawn loops
scoreBeforePassedPawns(b) ==
  interpolatedScore(b) + pawnCoverScore(b) + doubledPawnScore(b)
    + mobilityScore(b, whitePawnAttacks(b), blackPawnAttacks(b),
                    getAllPieceBitBoard(b, WHITE), getAllPieceBitBoard(b, BLACK))

\* fault: the bonus is given only when both neighbouring files are clear
whitePassedPawnBonus_BothFiles(b, pos) ==
  IF pos \div 8 <= 4 /\ BitAnd(WHITE_PAWN_FREEPATH_PATTERNS(pos), getAllPieceBitBoard(b, BLACK)) = {}
        /\ (pos % 8 = 0 \/ BitAnd(WHITE_PAWN_FREEPATH_PATTERNS(pos - 1), getBitBoard(b, -PAWN)) = {})
        /\ (pos % 8 = 7 \/ BitAnd(WHITE_PAWN_FREEPATH_PATTERNS(pos + 1), getBitBoard(b, -PAWN)) = {})
    THEN (PASSED_PAWN_BONUS * (5 - (pos \div 8))) + Pow2(5 - (pos \div 8)) + (5 - (pos \div 8))
    ELSE 0

\* getScore: the body of the loop over the White pawns
whitePassedPawnBonus(b, pos) ==
  IF pos \div 8 <= 4 /\ BitAnd(WHITE_PAWN_FREEPATH_PATTERNS(pos), getAllPieceBitBoard(b, BLACK)) = {}
    THEN IF pos % 8 = 0 \/ BitAnd(WHITE_PAWN_FREEPATH_PATTERNS(pos - 1), getBitBoard(b, -PAWN)) = {}
           THEN (PASSED_PAWN_BONUS * (5 - (pos \div 8)))
                + (IF pos % 8 = 7 \/ BitAnd(WHITE_PAWN_FREEPATH_PATTERNS(pos + 1), getBitBoard(b, -PAWN)) = {}
                     THEN Pow2(5 - (pos \div 8)) + (5 - (pos \div 8))
                     ELSE 0)
         ELSE IF pos % 8 = 7 \/ BitAnd(WHITE_PAWN_FREEPATH_PATTERNS(pos + 1), getBitBoard(b, -PAWN)) = {}
           THEN PASSED_PAWN_BONUS * (5 - (pos \div 8))
         ELSE 0
    ELSE 0

\* getScore: the body of the loop over the Black pawns
blackPassedPawnBonus(b, pos) ==
  IF 7 - (pos \div 8) <= 4 /\ BitAnd(BLACK_PAWN_FREEPATH_PATTERNS(pos), getAllPieceBitBoard(b, WHITE)) = {}
    THEN IF pos % 8 = 0 \/ BitAnd(BLACK_PAWN_FREEPATH_PATTERNS(pos - 1), getBitBoard(b, PAWN)) = {}
           THEN (PASSED_PAWN_BONUS * (5 - (7 - (pos \div 8))))
                + (IF pos % 8 = 7 \/ BitAnd(BLACK_PAWN_FREEPATH_PATTERNS(pos + 1), getBitBoard(b, PAWN)) = {}
                     THEN Pow2(5 - (7 - (pos \div 8))) + (5 - (7 - (pos \div 8)))
                     ELSE 0)
         ELSE IF pos % 8 = 7 \/ BitAnd(BLACK_PAWN_FREEPATH_PATTERNS(pos + 1), getBitBoard(b, PAWN)) = {}
           THEN PASSED_PAWN_BONUS * (5 - (7 - (pos \div 8)))
         ELSE 0
    ELSE 0

RECURSIVE passedWhitePawns(_, _)
\* getScore: the loop over the White pawns, lowest bit first
passedWhitePawns(b, pawns) ==
  IF pawns = {} THEN 0
  ELSE whitePassedPawnBonus(b, ctzBB(pawns)) + passedWhitePawns(b, pawns \ {ctzBB(pawns)})

RECURSIVE passedBlackPawns(_, _)
\* getScore: the loop over the Black pawns, lowest bit first
passedBlackPawns(b, pawns) ==
  IF pawns = {} THEN 0
  ELSE blackPassedPawnBonus(b, ctzBB(pawns)) + passedBlackPawns(b, pawns \ {ctzBB(pawns)})

\* getScore: both passed pawn loops
passedPawnScore(b) ==
  passedWhitePawns(b, getBitBoard(b, PAWN)) - passedBlackPawns(b, getBitBoard(b, -PAWN))

\* min(KING_DANGER_PIECE_PENALTY << (pieces + queens - KING_DANGER_THRESHOLD), 500)
dangerScore(piecesInZone, queensInZone) ==
  IF KING_DANGER_PIECE_PENALTY * Pow2(piecesInZone + queensInZone - KING_DANGER_THRESHOLD) < 500
    THEN KING_DANGER_PIECE_PENALTY * Pow2(piecesInZone + queensInZone - KING_DANGER_THRESHOLD)
    ELSE 500

\* getScore: the threat to the king of the colour, as a positive number
kingThreat(b, color, kingIndex) ==
  IF popcnt(BitAnd(getAllPieceBitBoard(b, -color) \ getBitBoard(b, -color * PAWN),
                   KING_DANGER_ZONE_PATTERNS(kingIndex))) >= KING_DANGER_THRESHOLD
    THEN dangerScore(
           popcnt(BitAnd(getAllPieceBitBoard(b, -color) \ getBitBoard(b, -color * PAWN),
                         KING_DANGER_ZONE_PATTERNS(kingIndex))),
           popcnt(BitAnd(getBitBoard(b, -color * QUEEN), KING_DANGER_ZONE_PATTERNS(kingIndex))))
    ELSE 0

\* getScore: both king threat blocks
kingThreatScore(b) ==
  kingThreat(b, BLACK, b.blackKingIndex) - kingThreat(b, WHITE, b.whiteKingIndex)

\* getScore: interpolatedScore before the adjustment for likely draws
scoreBeforeAdjustment(b) ==
  scoreBeforePassedPawns(b) + passedPawnScore(b) + kingThreatScore(b)

\* fault: the score is 0 once the clock has reached the threshold
pawnlessDrawAdjust_ZeroAtThreshold(b, score) ==
  IF \/ /\ getBitBoard(b, -PAWN) = {}
        /\ score < -PAWNLESS_DRAW_SCORE_LOW_THRESHOLD
        /\ score > -PAWNLESS_DRAW_SCORE_HIGH_THRESHOLD
     \/ /\ getBitBoard(b, PAWN) = {}
        /\ score > PAWNLESS_DRAW_SCORE_LOW_THRESHOLD
        /\ score < PAWNLESS_DRAW_SCORE_HIGH_THRESHOLD
    THEN IF PAWNLESS_DRAW_CLOCK_THRESHOLD - getHalfMoveClock(b) > 0
           THEN DivI32(score * (PAWNLESS_DRAW_CLOCK_THRESHOLD - getHalfMoveClock(b)),
                       PAWNLESS_DRAW_CLOCK_THRESHOLD)
           ELSE 0
    ELSE score

\* getScore: the adjustment for positions that are very likely a draw
pawnlessDrawAdjust(b, score) ==
  IF \/ /\ getBitBoard(b, -PAWN) = {}
        /\ score < -PAWNLESS_DRAW_SCORE_LOW_THRESHOLD
        /\ score > -PAWNLESS_DRAW_SCORE_HIGH_THRESHOLD
     \/ /\ getBitBoard(b, PAWN) = {}
        /\ score > PAWNLESS_DRAW_SCORE_LOW_THRESHOLD
        /\ score < PAWNLESS_DRAW_SCORE_HIGH_THRESHOLD
    THEN IF PAWNLESS_DRAW_CLOCK_THRESHOLD - getHalfMoveClock(b) > 0
           THEN DivI32(score * (PAWNLESS_DRAW_CLOCK_THRESHOLD - getHalfMoveClock(b)),
                       PAWNLESS_DRAW_CLOCK_THRESHOLD)
           ELSE DivI32(score, PAWNLESS_DRAW_CLOCK_THRESHOLD)
    ELSE score

getScore(b) == pawnlessDrawAdjust(b, scoreBeforeAdjustment(b))

MaxExtra == 3

\* the squares -> pieces function of a set of <<square, piece>> pairs
Placed(S) == [s \in {p[1] : p \in S} |-> CHOOSE pc \in -6..6 : <<s, pc>> \in S]

\* pieces put on the board beside the kings on 60 and 4: knights, bishops on
\* light (34, 27) and dark (35, 26) squares, a pawn, a rook, a queen
MaterialPool ==
  {<<42, KNIGHT>>, <<21, -KNIGHT>>, <<34, BISHOP>>, <<35, BISHOP>>,
   <<26, -BISHOP>>, <<27, -BISHOP>>, <<52, PAWN>>, <<0, -ROOK>>, <<59, QUEEN>>}

\* both kings and up to MaxExtra pieces of the pool
MaterialVectors ==
  {Vector(Placed(S \cup {<<WHITE_KING_START, KING>>, <<BLACK_KING_START, -KING>>}),
          0, 0, 0) :
     S \in {T \in SUBSET MaterialPool : Cardinality(T) <= MaxExtra}}

\* the square on the same file with rank r swapped for rank 7 - r
MirrorSquare(s) == ((7 - Rank(s)) * 8) + File(s)

\* the most White pieces, besides the king, of a mirrored position
MaxMirrored == 2

\* White's half of the mirrored positions
MirrorPool ==
  {<<52, PAWN>>, <<48, PAWN>>, <<36, PAWN>>, <<27, PAWN>>, <<33, PAWN>>, <<45, KNIGHT>>,
   <<57, KNIGHT>>, <<58, BISHOP>>, <<34, BISHOP>>, <<56, ROOK>>, <<63, ROOK>>, <<59, QUEEN>>,
   <<19, QUEEN>>}

\* a White half with the Black pieces on the mirrored squares
WithMirrorImage(S) == S \cup {<<MirrorSquare(p[1]), -p[2]>> : p \in S}

\* castling states that are the same for both colours
MirroredStates ==
  {0, ALL_CASTLING_RIGHTS, WHITE_KING_SIDE_CASTLING + BLACK_KING_SIDE_CASTLING,
   WHITE_QUEEN_SIDE_CASTLING + BLACK_QUEEN_SIDE_CASTLING, WHITE_HAS_CASTLED + BLACK_HAS_CASTLED}

\* positions that equal their own colour-swapped vertical mirror
SymmetricVectors ==
  {StandardPosition}
    \cup {Vector(Placed(WithMirrorImage(S \cup {<<k, KING>>})), 0, 0, state) :
            S \in {T \in SUBSET MirrorPool : Cardinality(T) <= MaxMirrored},
            k \in {WHITE_KING_START, 62}, state \in MirroredStates}

\* positions in which one side has no pawns, at clocks around the threshold
PawnlessPieces ==
  {60 :> KING @@ 62 :> KNIGHT @@ 4 :> -KING @@ 8 :> -PAWN,
   60 :> KING @@ 48 :> PAWN @@ 4 :> -KING @@ 6 :> -KNIGHT,
   60 :> KING @@ 62 :> KNIGHT @@ 4 :> -KING,
   60 :> KING @@ 56 :> ROOK @@ 4 :> -KING @@ 8 :> -PAWN,
   60 :> KING @@ 62 :> KNIGHT @@ 58 :> BISHOP @@ 4 :> -KING @@ 8 :> -PAWN,
   60 :> KING @@ 48 :> PAWN @@ 4 :> -KING @@ 8 :> -PAWN,
   60 :> KING @@ 4 :> -KING @@ 8 :> -PAWN @@ 9 :> -PAWN @@ 10 :> -PAWN,
   60 :> KING @@ 48 :> PAWN @@ 49 :> PAWN @@ 4 :> -KING @@ 2 :> -BISHOP}

PawnlessVectors ==
  {Vector(pieces, clock, 0, 0) : pieces \in PawnlessPieces, clock \in {0, 1, 32, 63, 64, 65, 99}}

\* pawns within four ranks of promotion, with and without enemy pawns in
\* front of them on the neighbouring files and enemy pieces on their own file
PassedPawnPool ==
  {<<27, PAWN>>, <<24, PAWN>>, <<31, PAWN>>, <<40, PAWN>>, <<42, PAWN>>, <<44, PAWN>>,
   <<18, -PAWN>>, <<20, -PAWN>>, <<11, -PAWN>>, <<9, -PAWN>>, <<14, -PAWN>>, <<35, -PAWN>>,
   <<3, -KNIGHT>>}

PassedPawnVectors ==
  {Vector(Placed(S \cup {<<WHITE_KING_START, KING>>, <<BLACK_KING_START, -KING>>}), 0, 0, 0) :
     S \in {T \in SUBSET PassedPawnPool : Cardinality(T) <= MaxExtra}}

EvalVectors == MaterialVectors \cup SymmetricVectors \cup PawnlessVectors \cup PassedPawnVectors

InitEval ==
  /\ board \in {constructor(v) : v \in EvalVectors}
  /\ calls = <<>>
  /\ lastOp = "constructor"
  /\ ret = EMPTY
  /\ popped = NoCall

\* board.isInsufficientMaterialDraw()
IsInsufficientMaterialDraw ==
  /\ lastOp = "constructor"
  /\ ret' = isInsufficientMaterialDraw(board)
  /\ calls' = <<[kind |-> "isInsufficientMaterialDraw"]>>
  /\ lastOp' = "isInsufficientMaterialDraw"
  /\ UNCHANGED <<board, popped>>

\* board.getScore()
GetScore ==
  /\ lastOp = "constructor"
  /\ ret' = getScore(board)
  /\ calls' = <<[kind |-> "getScore"]>>
  /\ lastOp' = "getScore"
  /\ UNCHANGED <<board, popped>>

NextEval ==
  \/ IsInsufficientMaterialDraw
  \/ GetScore

SpecEval == InitEval /\ [][NextEval]_vars

\* the squares of board b that hold a piece other than a king
NonKingSquares(b) == {s \in Squares : getItem(b, s) # EMPTY /\ abs(getItem(b, s)) # KING}

\* the two squares have the same colour
SameSquareColour(s, t) == (Rank(s) + File(s)) % 2 = (Rank(t) + File(t)) % 2

\* K vs K, the kings and a single knight or bishop, or K+B vs K+B with the
\* bishops on squares of one colour, read from the mailbox
InsufficientMaterial(b) ==
  \/ NonKingSquares(b) = {}
  \/ /\ Cardinality(NonKingSquares(b)) = 1
     /\ \A s \in NonKingSquares(b) : abs(getItem(b, s)) \in {KNIGHT, BISHOP}
  \/ /\ Cardinality(NonKingSquares(b)) = 2
     /\ \E s, t \in NonKingSquares(b) :
          /\ getItem(b, s) = BISHOP
          /\ getItem(b, t) = -BISHOP
          /\ SameSquareColour(s, t)

\* C21: on a board with one king per colour isInsufficientMaterialDraw is
\* true exactly for K vs K, for the kings plus one single knight or bishop of
\* either colour, and for K+B vs K+B with both bishops on squares of the same
\* colour; so it is false for bishops on opposite colours and for every
\* position of five or more pieces.
C21_InsufficientMaterial ==
  lastOp = "isInsufficientMaterialDraw" =>
    /\ ret = InsufficientMaterial(board)
    /\ Cardinality(NonKingSquares(board)) >= 3 => ret = FALSE

\* K+B vs K+B with both bishops on dark squares is a draw
C21_Witness ==
  /\ lastOp = "isInsufficientMaterialDraw"
  /\ getItem(board, 35) = BISHOP
  /\ getItem(board, 26) = -BISHOP
  /\ Cardinality(NonKingSquares(board)) = 2
  /\ ret = TRUE

\* ------------------------------------------------------------------------
\* Engine draw in a game of knight and king shuttles
\* ------------------------------------------------------------------------

\* PositionHistory.isSingleRepetition (history): the hash pushed last was
\* pushed before
isSingleRepetition(b) ==
  \E i \in 1..(Len(b.positionHistory) - 1) :
    b.positionHistory[i] = b.positionHistory[Len(b.positionHistory)]

\* fault: the fifty-move rule is left out
isEngineDraw_NoFiftyMoves(b) == isSingleRepetition(b) \/ isInsufficientMaterialDraw(b)

isEngineDraw(b) == isSingleRepetition(b) \/ isFiftyMoveDraw(b) \/ isInsufficientMaterialDraw(b)

\* the longest game played
MaxGamePly == 100

\* the standard initial position two plies before the fifty-move limit
LateStandardPosition == Vector(StandardPieces, 98, 0, ALL_CASTLING_RIGHTS)

\* king and knight against king
LoneKnightPosition == Vector(60 :> KING @@ 62 :> KNIGHT @@ 4 :> -KING, 0, 0, 0)

GameVectors == {StandardPosition, LateStandardPosition, LoneKnightPosition}

\* the moves played: the king's knights go out and back, the Black king
\* steps aside and back
ShuttleMoves ==
  {m \in [pieceId : {KNIGHT, KING}, start : {62, 45, 6, 21, 4, 3}, end : {62, 45, 6, 21, 4, 3}] :
     <<m.pieceId, m.start, m.end>> \in
       {<<KNIGHT, 62, 45>>, <<KNIGHT, 45, 62>>, <<KNIGHT, 6, 21>>, <<KNIGHT, 21, 6>>,
        <<KING, 4, 3>>, <<KING, 3, 4>>}}

\* what a position is for the repetition rule: pieces, side to move, state
PositionKey(b) == <<SubSeq(b.items, 1, 64), getActivePlayer(b), getState(b)>>

InitGame ==
  /\ board \in {constructor(v) : v \in GameVectors}
  /\ calls = <<>>
  /\ lastOp = "constructor"
  /\ ret = EMPTY
  /\ popped = NoCall

\* board.performMove(pieceId, start, end) with a legal shuttle move
PerformShuttleMove ==
  /\ board.historyCounter < MaxGamePly
  /\ \E m \in ShuttleMoves \cap PseudoLegalMoves(board) :
       \E r \in {performMove(board, m.pieceId, m.start, m.end)} :
         /\ ~isInCheck(r.board, getActivePlayer(board))
         /\ board' = r.board
         /\ calls' = Append(calls,
              [kind |-> "move", type |-> MoveType(board, m.pieceId, m.start, m.end),
               piece |-> getItem(board, m.start), pieceId |-> m.pieceId,
               start |-> m.start, end |-> m.end, removed |-> r.ret,
               after |-> PositionKey(r.board)])
  /\ lastOp' = "performMove"
  /\ ret' = EMPTY
  /\ popped' = NoCall

\* board.undoMove(piece, start, end, removed) for the move performed last
UndoShuttleMove ==
  /\ calls # <<>>
  /\ LET c == calls[Len(calls)]
     IN  board' = undoMove(board, c.piece, c.start, c.end, c.removed)
  /\ calls' = SubSeq(calls, 1, Len(calls) - 1)
  /\ lastOp' = "undoMove"
  /\ ret' = EMPTY
  /\ popped' = NoCall

\* board.isEngineDraw()
IsEngineDraw ==
  /\ lastOp # "isEngineDraw"
  /\ ret' = isEngineDraw(board)
  /\ lastOp' = "isEngineDraw"
  /\ UNCHANGED <<board, calls, popped>>

NextGame ==
  \/ PerformShuttleMove
  \/ UndoShuttleMove
  \/ IsEngineDraw

SpecGame == InitGame /\ [][NextGame]_vars

\* the position reached by the last move was reached by an earlier move
PositionRepeated ==
  \E k \in 1..(Len(calls) - 1) : calls[k].after = calls[Len(calls)].after

\* the moves played so far are neither captures nor pawn moves
OnlyQuietPieceMoves ==
  \A k \in 1..Len(calls) : calls[k].type = "quiet" /\ abs(calls[k].piece) # PAWN

\* the halfmove clock the board was constructed with
StartClock == IF calls = <<>> THEN board.halfMoveClock ELSE board.halfMoveClockHistory[1]

\* C22: isEngineDraw is true iff the position history reports a single
\* repetition, or halfMoveClock >= 100, or the material is insufficient;
\* after 100 plies without capture or pawn move from clock 0 it is true, and
\* after 99 such plies the fifty-move condition does not hold.
C22_EngineDraw ==
  /\ lastOp = "isEngineDraw" =>
       /\ ret = (PositionRepeated \/ getHalfMoveClock(board) >= 100 \/ InsufficientMaterial(board))
       /\ (StartClock = 0 /\ OnlyQuietPieceMoves /\ Len(calls) = 100) => ret = TRUE
  /\ (StartClock = 0 /\ OnlyQuietPieceMoves /\ Len(calls) = 99) => ~isFiftyMoveDraw(board)

\* the fifty-move rule alone makes the draw
C22_Witness ==
  /\ lastOp = "isEngineDraw"
  /\ ret = TRUE
  /\ getHalfMoveClock(board) = 100
  /\ ~PositionRepeated
  /\ ~InsufficientMaterial(board)

\* a hundred quiet plies from clock 0
C22_WitnessHundred ==
  /\ lastOp = "isEngineDraw"
  /\ StartClock = 0
  /\ Len(calls) = 100
  /\ getHalfMoveClock(board) = 100
  /\ ret = TRUE

\* ------------------------------------------------------------------------
\* The cached endgame flag and the history depth
\* ------------------------------------------------------------------------

\* eight blocked pawns, two shut-in bishops, cornered kings and a knight
\* next to each king: a king that takes the knight brings the knights,
\* bishops, rooks and queens down to three
KnightTradePieces ==
  63 :> KING @@ 55 :> PAWN @@ 23 :> PAWN @@ 56 :> BISHOP @@ 49 :> PAWN @@ 17 :> PAWN @@ 6 :> KNIGHT
    @@ 7 :> -KING @@ 15 :> -PAWN @@ 47 :> -PAWN @@ 0 :> -BISHOP @@ 9 :> -PAWN @@ 41 :> -PAWN
    @@ 62 :> -KNIGHT

EndGameVectors == {Vector(KnightTradePieces, 0, 0, 0), Vector(KnightTradePieces, 3, 7, 0)}

InitEndGame ==
  /\ board \in {constructor(v) : v \in EndGameVectors}
  /\ calls = <<>>
  /\ lastOp = "constructor"
  /\ ret = EMPTY
  /\ popped = NoCall

\* board.updateEndGameStatus()
UpdateEndGameStatus ==
  /\ lastOp # "updateEndGameStatus"
  /\ board' = updateEndGameStatus(board)
  /\ lastOp' = "updateEndGameStatus"
  /\ ret' = EMPTY
  /\ popped' = NoCall
  /\ UNCHANGED calls

NextEndGame ==
  \/ PerformMove
  \/ PerformNullMove
  \/ UndoMove
  \/ UndoNullMove
  \/ UpdateEndGameStatus

SpecEndGame == InitEndGame /\ [][NextEndGame]_vars

\* at most three pawns, or at most three knights, bishops, rooks and queens,
\* counted on the mailbox
FewPawnsOrFewPieces(b) ==
  \/ Cardinality({s \in Squares : abs(getItem(b, s)) = PAWN}) <= 3
  \/ Cardinality({s \in Squares : abs(getItem(b, s)) \in {KNIGHT, BISHOP, ROOK, QUEEN}}) <= 3

\* C23 as stated: after construction and after every performMove and
\* undoMove isEndGame() equals the predicate on the current position.
C23_FlagFollowsMoves ==
  lastOp \in {"constructor", "performMove", "undoMove"} =>
    isEndGame(board) = FewPawnsOrFewPieces(board)

\* C23: after construction and after updateEndGameStatus, isEndGame() equals
\* (total pawn count <= 3 or total count of knights, bishops, rooks and
\* queens <= 3) on the current position; performMove and undoMove do not
\* recompute the flag.
C23_FlagFollowsUpdate ==
  lastOp \in {"constructor", "updateEndGameStatus"} =>
    isEndGame(board) = FewPawnsOrFewPieces(board)

\* the flag is recomputed after a capture that left three pieces
C23_Witness ==
  /\ lastOp = "updateEndGameStatus"
  /\ calls # <<>>
  /\ calls[Len(calls)].kind = "move"
  /\ calls[Len(calls)].type = "capture"
  /\ ~isEndGame(calls[Len(calls)].before)
  /\ isEndGame(board)

\* the halfMoveCount the board was constructed with
ConstructedCount == IF calls = <<>> THEN board.halfMoveCount ELSE calls[1].before.halfMoveCount

\* C25: every performMove and performNullMove pushes one history frame and
\* adds 1 to halfMoveCount, so the side to move alternates; every undoMove and
\* undoNullMove pops one frame and subtracts 1; the history depth and
\* halfMoveCount minus its constructor value both equal the number of moves
\* not yet undone, and the depth is never negative.
C25_FramesAndCount ==
  [][/\ lastOp' \in {"performMove", "performNullMove"} =>
          /\ board'.historyCounter = board.historyCounter + 1
          /\ Len(board'.stateHistory) = Len(board.stateHistory) + 1
          /\ board'.halfMoveCount = board.halfMoveCount + 1
          /\ getActivePlayer(board') = -getActivePlayer(board)
     /\ lastOp' \in {"undoMove", "undoNullMove"} =>
          /\ board'.historyCounter = board.historyCounter - 1
          /\ Len(board'.stateHistory) = Len(board.stateHistory) - 1
          /\ board'.halfMoveCount = board.halfMoveCount - 1
     /\ board'.historyCounter = Len(calls')
     /\ board'.halfMoveCount - ConstructedCount' = Len(calls')
     /\ board'.historyCounter >= 0]_vars

\* a null move taken back on top of two moves, on the board constructed with
\* halfMoveCount 7
C25_Witness ==
  /\ lastOp = "undoNullMove"
  /\ Len(calls) = 2
  /\ board.historyCounter = 2
  /\ ConstructedCount = 7
  /\ board.halfMoveCount = 9

\* C27: performMove, undoMove, performNullMove and undoNullMove leave the
\* cached endgame flag as it was; isEndGame() changes only through
\* updateEndGameStatus.
C27_MovesKeepEndGameFlag ==
  [][/\ lastOp' \in {"performMove", "undoMove", "performNullMove", "undoNullMove"} =>
          isEndGame(board') = isEndGame(board)
     /\ isEndGame(board') # isEndGame(board) => lastOp' = "updateEndGameStatus"]_vars

\* the flag set after a capture stays set when the capture is taken back
C27_Witness ==
  /\ lastOp = "undoMove"
  /\ popped.type = "capture"
  /\ isEndGame(board)
  /\ ~FewPawnsOrFewPieces(board)

\* the position equals its colour-swapped vertical mirror, castling bits included
MirrorSymmetric(b) ==
  /\ \A s \in Squares : getItem(b, MirrorSquare(s)) = -getItem(b, s)
  /\ canWhiteCastleKingSide(b) = canBlackCastleKingSide(b)
  /\ canWhiteCastleQueenSide(b) = canBlackCastleQueenSide(b)
  /\ hasWhiteCastled(b) = hasBlackCastled(b)

\* C24: for the standard initial position with all castling rights and no
\* castled flags, and for any position that equals its own colour-swapped
\* vertical mirror with mirrored castling bits, getScore() returns 0.
C24_SymmetricScoreZero ==
  (lastOp = "getScore" /\ MirrorSymmetric(board)) => ret = 0

\* getScore() on the standard initial position
C24_Witness ==
  /\ lastOp = "getScore"
  /\ \A s \in Squares : getItem(board, s) = StandardPosition[s + 1]
  /\ getState(board) = ALL_CASTLING_RIGHTS
  /\ ret = 0

\* the colour has no pawns on the mailbox
NoPawns(b, color) == \A s \in Squares : getItem(b, s) # color * PAWN

\* one side has no pawns and the score lies strictly between 100 and 400 in
\* its favour
LikelyPawnlessDraw(b, score) ==
  \/ NoPawns(b, WHITE) /\ score > 100 /\ score < 400
  \/ NoPawns(b, BLACK) /\ -score > 100 /\ -score < 400

\* C28 as stated: the dampened score is the score times max(0, 64 -
\* halfMoveClock) divided by 64, so it is 0 from clock 64 on; otherwise the
\* score is returned undampened.
C28_DampedToZero ==
  lastOp = "getScore" =>
    ret = IF LikelyPawnlessDraw(board, scoreBeforeAdjustment(board))
            THEN DivI32(scoreBeforeAdjustment(board)
                          * (IF 64 - getHalfMoveClock(board) > 0 THEN 64 - getHalfMoveClock(board) ELSE 0), 64)
            ELSE scoreBeforeAdjustment(board)

\* C28: when one side has no pawns and the score so far lies strictly between
\* 100 and 400 in its favour, getScore returns that score times
\* max(1, 64 - halfMoveClock) divided by 64, truncating toward zero: from
\* clock 63 on it is the score divided by 64, not 0; otherwise the score is
\* returned undampened.
C28_DampedToOne64th ==
  lastOp = "getScore" =>
    ret = IF LikelyPawnlessDraw(board, scoreBeforeAdjustment(board))
            THEN DivI32(scoreBeforeAdjustment(board)
                          * (IF 64 - getHalfMoveClock(board) > 1 THEN 64 - getHalfMoveClock(board) ELSE 1), 64)
            ELSE scoreBeforeAdjustment(board)

\* a dampened score at a clock past the threshold that is not 0
C28_Witness ==
  /\ lastOp = "getScore"
  /\ getHalfMoveClock(board) >= 64
  /\ LikelyPawnlessDraw(board, scoreBeforeAdjustment(board))
  /\ ret # 0

\* the pawn on pos is within four ranks of promotion and no enemy piece
\* stands in front of it on its file
FreePath(b, pos) ==
  LET c == getItem(b, pos)
      d == IF c = PAWN THEN Rank(pos) ELSE 7 - Rank(pos)
  IN  /\ d <= 4
      /\ \A s \in Squares :
           (File(s) = File(pos) /\ (IF c = PAWN THEN Rank(s) < Rank(pos) ELSE Rank(s) > Rank(pos)))
             => sign(getItem(b, s)) # -c

\* no enemy pawn stands on the file next to pos (df = -1 or 1) on a rank in
\* front of the pawn on pos; a file off the board is clear
NeighbourClear(b, pos, df) ==
  LET c == getItem(b, pos)
  IN  \A s \in Squares :
        (File(s) = File(pos) + df /\ (IF c = PAWN THEN Rank(s) < Rank(pos) ELSE Rank(s) > Rank(pos)))
          => getItem(b, s) # -c

\* the rank distance the bonus is computed from
Reversed(b, pos) == 5 - (IF getItem(b, pos) = PAWN THEN Rank(pos) ELSE 7 - Rank(pos))

\* the bonus of the pawn on pos, for its own side
PassedBonus(b, pos) ==
  IF FreePath(b, pos) /\ (NeighbourClear(b, pos, -1) \/ NeighbourClear(b, pos, 1))
    THEN (25 * Reversed(b, pos))
         + (IF NeighbourClear(b, pos, -1) /\ NeighbourClear(b, pos, 1)
              THEN Pow2(Reversed(b, pos)) + Reversed(b, pos) ELSE 0)
    ELSE 0

PawnSquares(b) == {s \in Squares : abs(getItem(b, s)) = PAWN}

RECURSIVE SumPassedBonus(_, _)
\* White's bonuses minus Black's over the pawns on S
SumPassedBonus(b, S) ==
  IF S = {} THEN 0
  ELSE LET s == CHOOSE t \in S : TRUE
       IN  (getItem(b, s) * PassedBonus(b, s)) + SumPassedBonus(b, S \ {s})

\* C29 as stated: a pawn with an enemy pawn in front of it on exactly one
\* neighbouring file receives no passed-pawn bonus; when every pawn with a
\* free path is such a pawn the passed pawns add nothing to the score.
C29_OneNeighbourNoBonus ==
  (/\ lastOp = "getScore"
   /\ \A s \in PawnSquares(board) :
        FreePath(board, s) => (NeighbourClear(board, s, -1) # NeighbourClear(board, s, 1)))
    => ret = pawnlessDrawAdjust(board, scoreBeforePassedPawns(board) + kingThreatScore(board))

\* C29: a pawn with distance-to-promotion d <= 4 whose own free path holds no
\* enemy piece receives 25*(5-d) when at least one neighbouring file's free
\* path holds no enemy pawn (a missing file counting as clear), and a further
\* (1 << (5-d)) + (5-d) when both do; it receives nothing only when both
\* neighbouring free paths hold enemy pawns.
C29_OneClearNeighbourSuffices ==
  lastOp = "getScore" =>
    ret = pawnlessDrawAdjust(board,
            scoreBeforePassedPawns(board) + kingThreatScore(board)
              + SumPassedBonus(board, PawnSquares(board)))

\* the White pawn on d5 with a Black pawn on c6 and none on the e-file
C29_Witness ==
  /\ lastOp = "getScore"
  /\ PawnSquares(board) = {27, 18}
  /\ getItem(board, 27) = PAWN
  /\ getItem(board, 18) = -PAWN
  /\ getItem(board, 3) = EMPTY
  /\ ret = pawnlessDrawAdjust(board, scoreBeforePassedPawns(board) + kingThreatScore(board) + 50)

\* ------------------------------------------------------------------------
\* util: bit board strings
\* ------------------------------------------------------------------------

\* fault: the bits of each group are written highest first
toBitBoardString_HighBitFirst(value) ==
  [k \in 1..71 |->
     IF k % 9 = 0 THEN "/"
     ELSE IF ((((k - 1) \div 9) * 8) + (7 - ((k - 1) % 9))) \in value THEN "1" ELSE "0"]

\* toBitBoardString(value): 64 binary characters, bit 0 first, a slash after
\* every eighth character but the last
toBitBoardString(value) ==
  [k \in 1..71 |->
     IF k % 9 = 0 THEN "/"
     ELSE IF ((((k - 1) \div 9) * 8) + ((k - 1) % 9)) \in value THEN "1" ELSE "0"]

\* fromBitBoardString: bitCount when the character at index i is read, the
\* number of binary characters before it
bitCount(bits, i) == Cardinality({j \in 1..(i - 1) : bits[j] \in {"0", "1"}})

\* fromBitBoardString(bits): the slashes are skipped, every "1" sets the bit
\* numbered by the binary characters read before it
fromBitBoardString(bits) == {bitCount(bits, i) : i \in {j \in 1..Len(bits) : bits[j] = "1"}}

\* the conversions applied one after the other, at most
MaxConversions == 2

\* bits set in the sampled values
SampleBits == {0, 1, 7, 8, 31, 32, 62, 63}

\* 0x3, 0xF, 0xAA, 0, 0xFFFFFFFFFFFFFFFF, 0x8000000000000000 and the values
\* made of the sampled bits
SampleValues == {{0, 1}, 0..3, {1, 3, 5, 7}, {}, Squares, {63}} \cup SUBSET SampleBits

\* groups of eight binary characters
SampleGroups ==
  {<<"0", "0", "0", "0", "0", "0", "0", "0">>, <<"1", "1", "0", "0", "0", "0", "0", "0">>,
   <<"0", "1", "0", "1", "0", "1", "0", "1">>, <<"1", "1", "1", "1", "1", "1", "1", "1">>,
   <<"0", "0", "0", "0", "0", "0", "0", "1">>}

\* well-formed strings: a first group, six equal middle groups, a last group
SampleStrings ==
  {g \o <<"/">> \o m \o <<"/">> \o m \o <<"/">> \o m \o <<"/">> \o m \o <<"/">> \o m
     \o <<"/">> \o m \o <<"/">> \o h : g \in SampleGroups, m \in SampleGroups, h \in SampleGroups}

InitUtil ==
  /\ board = <<>>
  /\ \/ \E v \in SampleValues : calls = <<[kind |-> "input", type |-> "u64", out |-> v]>>
     \/ \E s \in SampleStrings : calls = <<[kind |-> "input", type |-> "string", out |-> s]>>
  /\ lastOp = "none"
  /\ ret = EMPTY
  /\ popped = NoCall

\* toBitBoardString(value) on the value obtained last
ToBitBoardString ==
  /\ Len(calls) <= MaxConversions
  /\ calls[Len(calls)].type = "u64"
  /\ calls' = Append(calls, [kind |-> "toBitBoardString", type |-> "string",
                             out |-> toBitBoardString(calls[Len(calls)].out)])
  /\ lastOp' = "toBitBoardString"
  /\ UNCHANGED <<board, ret, popped>>

\* fromBitBoardString(bits) on the string obtained last
FromBitBoardString ==
  /\ Len(calls) <= MaxConversions
  /\ calls[Len(calls)].type = "string"
  /\ calls' = Append(calls, [kind |-> "fromBitBoardString", type |-> "u64",
                             out |-> fromBitBoardString(calls[Len(calls)].out)])
  /\ lastOp' = "fromBitBoardString"
  /\ UNCHANGED <<board, ret, popped>>

NextUtil ==
  \/ ToBitBoardString
  \/ FromBitBoardString

SpecUtil == InitUtil /\ [][NextUtil]_vars

\* the string without its slashes
BinaryCharacters(s) == SelectSeq(s, LAMBDA c : c # "/")

\* the i-th binary character of s is "1" iff bit i of v is set
SameBits(v, s) ==
  /\ Len(BinaryCharacters(s)) = 64
  /\ \A i \in 0..63 : (BinaryCharacters(s)[i + 1] = "1") <=> (i \in v)

TableHeap ==
  <<PAWN_POSITION_SCORES, KNIGHT_POSITION_SCORES, BISHOP_POSITION_SCORES, ROOK_POSITION_SCORES,
    QUEEN_POSITION_SCORES, KING_POSITION_SCORES, KING_ENDGAME_POSITION_SCORES>>

\* mirrored: one pass of the inner loop body, on the 1-based array output
mirroredSwap(output, column, row) ==
  [output EXCEPT ![column + (row * 8) + 1] = output[column + ((7 - row) * 8) + 1],
                 ![column + ((7 - row) * 8) + 1] = output[column + (row * 8) + 1]]

RECURSIVE mirroredLoop(_, _)
\* mirrored: the two nested loops, n = column * 4 + row counting the passes
mirroredLoop(output, n) ==
  IF n >= 32 THEN output
  ELSE mirroredLoop(mirroredSwap(output, n \div 4, n % 4), n + 1)

\* fault: the loops run on the input array itself
mirroredOnHeap_InPlace(heap, input) ==
  [heap |-> [heap EXCEPT ![input] = mirroredLoop(heap[input], 0)], ret |-> input]

\* mirrored(input) on the heap: StaticArray.slice allocates the output array
mirroredOnHeap(heap, input) ==
  [heap |-> Append(heap, mirroredLoop(heap[input], 0)), ret |-> Len(heap) + 1]

RECURSIVE mirroredAll(_, _, _)
\* the calls of mirrored in the array literals of calculatePieceSquareTables,
\* left to right; refs collects the arrays returned
mirroredAll(heap, inputs, refs) ==
  IF inputs = <<>> THEN [heap |-> heap, refs |-> refs]
  ELSE CHOOSE r \in {mirroredAll(m.heap, Tail(inputs), Append(refs, m.ret)) :
                       m \in {mirroredOnHeap(heap, Head(inputs))}} : TRUE

\* the arrays of the references
Arrays(heap, refs) == [i \in 1..Len(refs) |-> heap[refs[i]]]

\* calculatePieceSquareTables() on the heap: the heap it leaves and the two
\* result tables
calculatePieceSquareTables(heap) ==
  CHOOSE t \in {[heap |-> m.heap,
                 white |-> combineScores(WHITE, Arrays(heap, <<1, 2, 3, 4, 5, 6>>),
                                         Arrays(heap, <<1, 2, 3, 4, 5, 7>>)),
                 black |-> combineScores(BLACK, Arrays(m.heap, SubSeq(m.refs, 1, 6)),
                                         Arrays(m.heap, SubSeq(m.refs, 7, 12)))] :
                  m \in {mirroredAll(heap, <<1, 2, 3, 4, 5, 6, 1, 2, 3, 4, 5, 7>>, <<>>)}} : TRUE

\* the calls of mirrored made after the tables are calculated, at most
MaxMirrorCalls == 2

\* here `board` holds the arrays of the module: the heap and the two tables
InitTables ==
  /\ board = calculatePieceSquareTables(TableHeap)
  /\ calls = <<>>
  /\ lastOp = "calculatePieceSquareTables"
  /\ ret = EMPTY
  /\ popped = NoCall

\* the reads of addPieceScore, once the tables are calculated:
\* WHITE_POSITION_SCORES[piece * 64 + mirror of pos] and
\* BLACK_POSITION_SCORES[piece * 64 + pos]
ReadScores ==
  /\ lastOp = "calculatePieceSquareTables"
  /\ \E piece \in PAWN..KING, pos \in Squares :
       ret' = [piece |-> piece, pos |-> pos,
               white |-> board.white[(piece * 64) + MirrorSquare(pos)],
               black |-> board.black[(piece * 64) + pos]]
  /\ lastOp' = "readScores"
  /\ UNCHANGED <<board, calls, popped>>

\* mirrored(input) on a position score array or on the array returned last
Mirrored ==
  /\ lastOp # "readScores"
  /\ Len(calls) < MaxMirrorCalls
  /\ \E input \in (1..7) \cup {calls[k].ret : k \in 1..Len(calls)} :
       \E m \in {mirroredOnHeap(board.heap, input)} :
         /\ board' = [board EXCEPT !.heap = m.heap]
         /\ ret' = m.ret
         /\ calls' = Append(calls, [kind |-> "mirrored", input |-> input, ret |-> m.ret,
                                    before |-> board.heap])
  /\ lastOp' = "mirrored"
  /\ popped' = NoCall

NextTables ==
  \/ ReadScores
  \/ Mirrored

SpecTables == InitTables /\ [][NextTables]_vars

\* C30: after calculatePieceSquareTables both halves of the Black entry for
\* (p, s) are the negation of the halves of the White entry for (p,
\* mirror(s)), mirror swapping rank r with rank 7 - r on the same file;
\* mirrored() returns a new array, leaves its input unchanged, and applied
\* twice gives back the original table.
C30_TablesMirrored ==
  /\ lastOp = "readScores" =>
       /\ unpackFirstScore(ret.black) = -unpackFirstScore(ret.white)
       /\ unpackSecondScore(ret.black) = -unpackSecondScore(ret.white)
  /\ \A k \in 1..Len(calls) :
       /\ calls[k].ret \notin DOMAIN calls[k].before
       /\ \A r \in DOMAIN calls[k].before : board.heap[r] = calls[k].before[r]
       /\ \A s \in Squares :
            board.heap[calls[k].ret][MirrorSquare(s) + 1] = calls[k].before[calls[k].input][s + 1]
  /\ \A k \in 2..Len(calls) :
       calls[k].input = calls[k - 1].ret =>
         board.heap[calls[k].ret] = board.heap[calls[k - 1].input]
  /\ \A r \in 1..7 : board.heap[r] = TableHeap[r]

\* the pawn table mirrored twice
C30_Witness ==
  /\ Len(calls) = 2
  /\ calls[1].input = 1
  /\ calls[2].input = calls[1].ret
  /\ board.heap[calls[1].ret] # PAWN_POSITION_SCORES
  /\ board.heap[calls[2].ret] = PAWN_POSITION_SCORES

\* the entries of a White pawn on e2 and a Black pawn on e7
C30_WitnessEntry ==
  /\ lastOp = "readScores"
  /\ ret.piece = PAWN
  /\ ret.pos = 12
  /\ unpackFirstScore(ret.white) = -unpackFirstScore(ret.black)
  /\ unpackFirstScore(ret.white) > 0

\* ------------------------------------------------------------------------
\* State flags and the position history along move sequences
\* ------------------------------------------------------------------------

\* White to move; each side has one pawn on its baseline that can be pushed
\* two squares, far from the other pawn
DoublePushPosition ==
  Vector(63 :> KING @@ 48 :> PAWN @@ 0 :> -KING @@ 15 :> -PAWN, 0, 0, 0)

FlagVectors ==
  {WhiteCastlingPosition, BlackCastlingPosition, WhiteEnPassantPosition,
   EnPassantFlagPosition, DoublePushPosition, CornerCapturePosition}

InitFlags ==
  /\ board \in {constructor(v) : v \in FlagVectors}
  /\ calls = <<>>
  /\ lastOp = "constructor"
  /\ ret = EMPTY
  /\ popped = NoCall

NextFlags ==
  \/ PerformMove
  \/ PerformNullMove
  \/ UndoMove
  \/ UndoNullMove

SpecFlags == InitFlags /\ [][NextFlags]_vars

\* the indices 0..15 of the en passant flags set in the state of b
EnPassantBitsSet(b) == {i \in 0..15 : HasBit(getState(b), EN_PASSANT_BITMASKS[i])}

\* C31: on a board constructed with at most one en passant bit set, after
\* every sequence of performMove, performNullMove, undoMove and undoNullMove
\* at most one of the 16 en passant bits (state bits 13..28) is set, and
\* count-trailing-zeros of the en passant bits is the index of that flag.
C31_AtMostOneEnPassantBit ==
  /\ Cardinality(EnPassantBitsSet(board)) <= 1
  /\ getEnPassantStateBits(board) # 0 =>
       EnPassantBitsSet(board) = {ctz(getEnPassantStateBits(board))}

\* a Black double push right after a White double push: one flag is set
C31_Witness ==
  /\ lastOp = "performMove"
  /\ Len(calls) = 2
  /\ calls[1].kind = "move"
  /\ calls[2].kind = "move"
  /\ calls[1].type = "doublePush"
  /\ calls[2].type = "doublePush"
  /\ Cardinality(EnPassantBitsSet(calls[2].before)) = 1
  /\ EnPassantBitsSet(board) = {15 - BLACK_PAWNS_BASELINE_START}

\* C32: in every state reached by legal moves from a position with castling
\* rights and no castled flag, as the standard initial position is, a
\* colour's 'has castled' flag is set only when both castling rights of that
\* colour are clear.
C32_CastledImpliesNoRights ==
  /\ hasWhiteCastled(board) =>
       ~canWhiteCastleKingSide(board) /\ ~canWhiteCastleQueenSide(board)
  /\ hasBlackCastled(board) =>
       ~canBlackCastleKingSide(board) /\ ~canBlackCastleQueenSide(board)

\* White has just castled on a board that allowed both castlings
C32_Witness ==
  /\ lastOp = "performMove"
  /\ Top.type = "castling"
  /\ canWhiteCastleKingSide(Top.before)
  /\ canWhiteCastleQueenSide(Top.before)
  /\ hasWhiteCastled(board)
  /\ ~hasBlackCastled(board)

\* the castling rights set in the state of b
CastlingRights(b) ==
  {m \in {WHITE_KING_SIDE_CASTLING, WHITE_QUEEN_SIDE_CASTLING,
          BLACK_KING_SIDE_CASTLING, BLACK_QUEEN_SIDE_CASTLING} : HasBit(getState(b), m)}

\* the 'has castled' flags set in the state of b
CastledFlags(b) ==
  {m \in {WHITE_HAS_CASTLED, BLACK_HAS_CASTLED} : HasBit(getState(b), m)}

\* C33: performMove and performNullMove never set a castling right that was
\* clear and never clear a 'has castled' flag; a right that was clear is set
\* again only by undoMove or undoNullMove, which restore the state of the
\* frame stored before the move.
C33_RightsShrinkCastledGrows ==
  [][/\ lastOp' \in {"performMove", "performNullMove"} =>
          /\ CastlingRights(board') \subseteq CastlingRights(board)
          /\ CastledFlags(board) \subseteq CastledFlags(board')
     /\ ~(CastlingRights(board') \subseteq CastlingRights(board)) =>
          /\ lastOp' \in {"undoMove", "undoNullMove"}
          /\ getState(board') = board.stateHistory[Len(board.stateHistory)]
          /\ getState(board') = getState(popped'.before)]_vars

\* a castling has been taken back and both rights of White are set again
C33_Witness ==
  /\ lastOp = "undoMove"
  /\ popped.type = "castling"
  /\ CastlingRights(board) = {WHITE_KING_SIDE_CASTLING, WHITE_QUEEN_SIDE_CASTLING}
  /\ CastledFlags(board) = {}

\* C34: in every state reached by legal performMove / undoMove sequences
\* from a position where it holds, a set castling right implies that the
\* king of that colour stands on its start square (60 for White, 4 for
\* Black) and a rook of that colour on the corner square of that side.
C34_RightImpliesKingAndRookAtHome ==
  /\ canWhiteCastleKingSide(board) =>
       /\ getItem(board, WHITE_KING_START) = KING
       /\ getItem(board, WHITE_KING_SIDE_ROOK_START) = ROOK
  /\ canWhiteCastleQueenSide(board) =>
       /\ getItem(board, WHITE_KING_START) = KING
       /\ getItem(board, WHITE_QUEEN_SIDE_ROOK_START) = ROOK
  /\ canBlackCastleKingSide(board) =>
       /\ getItem(board, BLACK_KING_START) = -KING
       /\ getItem(board, BLACK_KING_SIDE_ROOK_START) = -ROOK
  /\ canBlackCastleQueenSide(board) =>
       /\ getItem(board, BLACK_KING_START) = -KING
       /\ getItem(board, BLACK_QUEEN_SIDE_ROOK_START) = -ROOK

\* the Black rook has left a8: the queen-side right is gone, the king-side
\* right remains with king and rook at home
C34_Witness ==
  /\ lastOp = "performMove"
  /\ Top.kind = "move"
  /\ Top.piece = -ROOK
  /\ Top.start = BLACK_QUEEN_SIDE_ROOK_START
  /\ canBlackCastleQueenSide(Top.before)
  /\ ~canBlackCastleQueenSide(board)
  /\ canBlackCastleKingSide(board)

\* the calls not yet undone that are performMove calls, by position in `calls`
PendingMoves == {i \in 1..Len(calls) : calls[i].kind = "move"}

\* the k-th pending performMove call
PendingMove(k) ==
  CHOOSE i \in PendingMoves : Cardinality({j \in PendingMoves : j <= i}) = k

\* getHash() right after the i-th call not yet undone: the board before the
\* next call, or the current board after the last one
HashAfterCall(i) ==
  IF i < Len(calls) THEN getHash(calls[i + 1].before) ELSE getHash(board)

\* the position history holds, in order, the hashes after the pending
\* performMove calls
HistoryHoldsPendingHashes ==
  /\ Len(board.positionHistory) = Cardinality(PendingMoves)
  /\ \A k \in 1..Cardinality(PendingMoves) :
       board.positionHistory[k] = HashAfterCall(PendingMove(k))

\* C35: the position history holds, in order, exactly the post-move hashes
\* of the performMove calls not yet undone: every performMove pushes one
\* entry, equal to getHash() after the call, on each of its return paths;
\* undoMove pops one entry; performNullMove and undoNullMove neither push
\* nor pop.
C35_HistoryOfPendingMoves ==
  [][/\ lastOp' = "performMove" =>
          board'.positionHistory = Append(board.positionHistory, getHash(board'))
     /\ lastOp' = "undoMove" =>
          /\ board.positionHistory # <<>>
          /\ board'.positionHistory =
               SubSeq(board.positionHistory, 1, Len(board.positionHistory) - 1)
     /\ lastOp' \in {"performNullMove", "undoNullMove"} =>
          board'.positionHistory = board.positionHistory
     /\ HistoryHoldsPendingHashes']_vars

\* a null move on top of a double push and its en passant capture: two
\* entries, the second the hash after the capture
C35_Witness ==
  /\ lastOp = "performNullMove"
  /\ Len(calls) = 3
  /\ calls[1].kind = "move"
  /\ calls[2].kind = "move"
  /\ calls[1].type = "doublePush"
  /\ calls[2].type = "enPassant"
  /\ Len(board.positionHistory) = 2
  /\ board.positionHistory[1] = getHash(calls[2].before)
  /\ board.positionHistory[2] = getHash(calls[3].before)
  /\ board.positionHistory[1] # board.positionHistory[2]

\* ------------------------------------------------------------------------
\* seeScore step by step: the do-while loop with its local variables
\* ------------------------------------------------------------------------

\* the local variables of seeScore when the loop is entered
seeScoreEnter(b, opponentColor, from, target, ownPieceId, capturedPieceId) ==
  [kind |-> "seeScore", opponentColor |-> opponentColor, from |-> from, target |-> target,
   ownPieceId |-> ownPieceId, capturedPieceId |-> capturedPieceId,
   score |-> PIECE_VALUES[capturedPieceId + 1],
   occupied |-> getOccupancyBitboard(b) \ {from},
   trophyPieceScore |-> PIECE_VALUES[ownPieceId + 1],
   attackerPos |-> -1, lookups |-> 0, returned |-> FALSE]

\* first half of the loop body, from the opponent's lookup to the removal of
\* the attacker from occupied; f holds the local variables
seeOpponentAttack(b, f, attackerPos) ==
  IF attackerPos < 0
    THEN [f EXCEPT !.attackerPos = attackerPos, !.lookups = @ + 1, !.returned = TRUE]
  ELSE IF (f.score - f.trophyPieceScore) + valueOn(b, attackerPos) < 0
    THEN [f EXCEPT !.attackerPos = attackerPos, !.lookups = @ + 1, !.returned = TRUE,
                   !.score = @ - f.trophyPieceScore,
                   !.trophyPieceScore = valueOn(b, attackerPos)]
  ELSE [f EXCEPT !.attackerPos = attackerPos, !.lookups = @ + 1,
                 !.score = @ - f.trophyPieceScore,
                 !.trophyPieceScore = valueOn(b, attackerPos),
                 !.occupied = @ \ {attackerPos}]

\* fault: the own attacker stays in occupied
seeOwnAttack_KeepsOccupied(b, f, ownAttackerPos) ==
  IF ownAttackerPos < 0
    THEN [f EXCEPT !.attackerPos = ownAttackerPos, !.lookups = @ + 1, !.returned = TRUE]
  ELSE IF (f.score + f.trophyPieceScore) - valueOn(b, ownAttackerPos) > 0
    THEN [f EXCEPT !.attackerPos = ownAttackerPos, !.lookups = @ + 1, !.returned = TRUE,
                   !.score = @ + f.trophyPieceScore,
                   !.trophyPieceScore = valueOn(b, ownAttackerPos)]
  ELSE [f EXCEPT !.attackerPos = ownAttackerPos, !.lookups = @ + 1,
                 !.score = @ + f.trophyPieceScore,
                 !.trophyPieceScore = valueOn(b, ownAttackerPos)]

\* second half of the loop body, from the own lookup to the removal of the
\* attacker from occupied
seeOwnAttack(b, f, ownAttackerPos) ==
  IF ownAttackerPos < 0
    THEN [f EXCEPT !.attackerPos = ownAttackerPos, !.lookups = @ + 1, !.returned = TRUE]
  ELSE IF (f.score + f.trophyPieceScore) - valueOn(b, ownAttackerPos) > 0
    THEN [f EXCEPT !.attackerPos = ownAttackerPos, !.lookups = @ + 1, !.returned = TRUE,
                   !.score = @ + f.trophyPieceScore,
                   !.trophyPieceScore = valueOn(b, ownAttackerPos)]
  ELSE [f EXCEPT !.attackerPos = ownAttackerPos, !.lookups = @ + 1,
                 !.score = @ + f.trophyPieceScore,
                 !.trophyPieceScore = valueOn(b, ownAttackerPos),
                 !.occupied = @ \ {ownAttackerPos}]

InitSee ==
  /\ board \in {constructor(v) : v \in QueryVectors}
  /\ calls = <<>>
  /\ lastOp = "constructor"
  /\ ret = EMPTY
  /\ popped = NoCall

\* the squares `from` of the calls: every occupied square and one empty
\* square (seeScore uses from only to clear its bit in occupied, so all
\* empty squares give the same run)
FromSquares(b) ==
  OccupiedSquares(b) \cup {CHOOSE s \in Squares \ OccupiedSquares(b) :
                             \A t \in Squares \ OccupiedSquares(b) : s <= t}

\* board.seeScore(opponentColor, from, target, ownPieceId, capturedPieceId)
\* is called and initialises its local variables; the piece ids are those of
\* the pieces on from and target
SeeScoreEnter ==
  /\ lastOp = "constructor"
  /\ \E opponentColor \in {WHITE, BLACK}, from \in FromSquares(board), target \in Squares :
       calls' = <<seeScoreEnter(board, opponentColor, from, target,
                                abs(getItem(board, from)), abs(getItem(board, target)))>>
  /\ lastOp' = "seeScoreEnter"
  /\ UNCHANGED <<board, ret, popped>>

\* the opponent's half of an iteration; seeScore returns from it or goes on
SeeOpponentAttack ==
  /\ lastOp \in {"seeScoreEnter", "seeOwnAttack"}
  /\ \E f \in {seeOpponentAttack(board, calls[1],
                 findSmallestAttacker(board, calls[1].occupied,
                                      calls[1].opponentColor, calls[1].target))} :
       /\ calls' = <<f>>
       /\ lastOp' = IF f.returned THEN "seeScore" ELSE "seeOpponentAttack"
       /\ ret' = IF f.returned THEN f.score ELSE ret
  /\ UNCHANGED <<board, popped>>

\* the own half of an iteration; seeScore returns from it or goes on
SeeOwnAttack ==
  /\ lastOp = "seeOpponentAttack"
  /\ \E f \in {seeOwnAttack(board, calls[1],
                 findSmallestAttacker(board, calls[1].occupied,
                                      -calls[1].opponentColor, calls[1].target))} :
       /\ calls' = <<f>>
       /\ lastOp' = IF f.returned THEN "seeScore" ELSE "seeOwnAttack"
       /\ ret' = IF f.returned THEN f.score ELSE ret
  /\ UNCHANGED <<board, popped>>

NextSee ==
  \/ SeeScoreEnter
  \/ SeeOpponentAttack
  \/ SeeOwnAttack

\* a call that has been entered keeps running: the loop body is always
\* executed again until it returns
SpecSee == InitSee /\ [][NextSee]_vars /\ WF_vars(NextSee)

\* C37: seeScore terminates on every board and every (from, target) pair:
\* each attacker square that findSmallestAttacker returns is in the local
\* occupied set and is cleared from it when the half-iteration completes,
\* so occupied strictly shrinks on every completed half-iteration, and the
\* loop makes at most as many attacker lookups as there are pieces on the
\* board plus one.
C37_SeeScoreTerminates ==
  /\ [][lastOp' \in {"seeOpponentAttack", "seeOwnAttack", "seeScore"} =>
          /\ calls'[1].attackerPos >= 0 => calls'[1].attackerPos \in calls[1].occupied
          /\ lastOp' # "seeScore" =>
               /\ calls'[1].occupied = calls[1].occupied \ {calls'[1].attackerPos}
               /\ calls'[1].occupied # calls[1].occupied
               /\ calls'[1].occupied \subseteq calls[1].occupied
          /\ calls'[1].lookups = calls[1].lookups + 1
          /\ calls'[1].lookups <= Cardinality(OccupiedSquares(board)) + 1]_vars
  /\ (lastOp = "seeScoreEnter") ~> (lastOp = "seeScore")

\* the exchange on 27 ran through five lookups, three completed
\* half-iterations among them, and returned the value seeScore computes
C37_Witness ==
  /\ lastOp = "seeScore"
  /\ calls[1].target = 27
  /\ calls[1].lookups >= 5
  /\ Cardinality((getOccupancyBitboard(board) \ {calls[1].from}) \ calls[1].occupied) >= 3
  /\ ret = seeScore(board, calls[1].opponentColor, calls[1].from, calls[1].target,
                    calls[1].ownPieceId, calls[1].capturedPieceId)

\* ------------------------------------------------------------------------
\* Queries called between moves
\* ------------------------------------------------------------------------

\* the deepest position, in plies, on which the queries are called
MaxQueriedPly == 2

\* king against king and knight two plies before the fifty-move limit; the
\* White king can capture the knight, which leaves the bare kings
KnightEndingPosition == Vector(60 :> KING @@ 4 :> -KING @@ 52 :> -KNIGHT, 98, 0, 0)

FrameVectors == {KnightEndingPosition}

MoveOps == {"constructor", "performMove", "performNullMove", "undoMove", "undoNullMove"}

\* the query `op` is called on a position up to MaxQueriedPly plies deep,
\* after a move operation or after a call of the same query
QueryCalled(op) ==
  /\ Len(calls) <= MaxQueriedPly
  /\ lastOp \in MoveOps \cup {op}

InitFrame ==
  /\ board \in {constructor(v) : v \in FrameVectors}
  /\ calls = <<>>
  /\ lastOp = "constructor"
  /\ ret = EMPTY
  /\ popped = NoCall

\* board.getScore() between moves
GetScoreInGame ==
  /\ QueryCalled("getScore")
  /\ ret' = getScore(board)
  /\ lastOp' = "getScore"
  /\ UNCHANGED <<board, calls, popped>>

\* the pairs (from, target) of a piece and an enemy piece that is not a king
PieceTakesPiece(b) ==
  {c \in OccupiedSquares(b) \X OccupiedSquares(b) :
     /\ sign(getItem(b, c[1])) = -sign(getItem(b, c[2]))
     /\ abs(getItem(b, c[2])) # KING}

\* fault: seeScore clears the bit of `from` in the board's own occupancy
\* instead of its local copy
SeeScoreInGame_ClearsBoardOccupancy ==
  /\ QueryCalled("seeScore")
  /\ \E c \in PieceTakesPiece(board) :
       /\ ret' = seeScore(board, -sign(getItem(board, c[1])), c[1], c[2],
                          abs(getItem(board, c[1])), abs(getItem(board, c[2])))
       /\ board' = [board EXCEPT !.bitBoardAllPieces[sign(getItem(board, c[1]))] = @ \ {c[1]}]
  /\ lastOp' = "seeScore"
  /\ UNCHANGED <<calls, popped>>

\* board.seeScore(opponent colour, from, target, own piece id, captured
\* piece id) between moves, for a piece on from and an enemy piece on target
SeeScoreInGame ==
  /\ QueryCalled("seeScore")
  /\ \E c \in PieceTakesPiece(board) :
       ret' = seeScore(board, -sign(getItem(board, c[1])), c[1], c[2],
                       abs(getItem(board, c[1])), abs(getItem(board, c[2])))
  /\ lastOp' = "seeScore"
  /\ UNCHANGED <<board, calls, popped>>

\* board.findSmallestAttacker(occupied, color, pos) between moves
FindSmallestAttackerInGame ==
  /\ QueryCalled("findSmallestAttacker")
  /\ \E color \in {WHITE, BLACK}, pos \in OccupiedSquares(board) :
       \E occupied \in {getOccupancyBitboard(board), getOccupancyBitboard(board) \ {pos}} :
         ret' = findSmallestAttacker(board, occupied, color, pos)
  /\ lastOp' = "findSmallestAttacker"
  /\ UNCHANGED <<board, calls, popped>>

\* board.isAttacked(color, pos) between moves
IsAttackedInGame ==
  /\ QueryCalled("isAttacked")
  /\ \E color \in {WHITE, BLACK}, pos \in OccupiedSquares(board) :
       ret' = isAttacked(board, color, pos)
  /\ lastOp' = "isAttacked"
  /\ UNCHANGED <<board, calls, popped>>

\* board.isInCheck(color) between moves
IsInCheckInGame ==
  /\ QueryCalled("isInCheck")
  /\ \E color \in {WHITE, BLACK} : ret' = isInCheck(board, color)
  /\ lastOp' = "isInCheck"
  /\ UNCHANGED <<board, calls, popped>>

\* board.isInsufficientMaterialDraw() between moves
IsInsufficientMaterialDrawInGame ==
  /\ QueryCalled("isInsufficientMaterialDraw")
  /\ ret' = isInsufficientMaterialDraw(board)
  /\ lastOp' = "isInsufficientMaterialDraw"
  /\ UNCHANGED <<board, calls, popped>>

\* board.isFiftyMoveDraw() between moves
IsFiftyMoveDrawInGame ==
  /\ QueryCalled("isFiftyMoveDraw")
  /\ ret' = isFiftyMoveDraw(board)
  /\ lastOp' = "isFiftyMoveDraw"
  /\ UNCHANGED <<board, calls, popped>>

\* board.isEngineDraw() between moves
IsEngineDrawInGame ==
  /\ QueryCalled("isEngineDraw")
  /\ ret' = isEngineDraw(board)
  /\ lastOp' = "isEngineDraw"
  /\ UNCHANGED <<board, calls, popped>>

NextFrame ==
  \/ PerformMove
  \/ PerformNullMove
  \/ UndoMove
  \/ UndoNullMove
  \/ GetScoreInGame
  \/ SeeScoreInGame
  \/ FindSmallestAttackerInGame
  \/ IsAttackedInGame
  \/ IsInCheckInGame
  \/ IsInsufficientMaterialDrawInGame
  \/ IsFiftyMoveDrawInGame
  \/ IsEngineDrawInGame

SpecFrame == InitFrame /\ [][NextFrame]_vars

QueryOps ==
  {"getScore", "seeScore", "findSmallestAttacker", "isAttacked", "isInCheck",
   "isInsufficientMaterialDraw", "isFiftyMoveDraw", "isEngineDraw"}

\* the board is the one that the last call not yet undone left, whatever
\* queries were called since
BoardFollowsFromCalls ==
  IF calls = <<>> THEN board \in {constructor(v) : v \in FrameVectors}
  ELSE IF Top.kind = "move"
    THEN board = performMove(Top.before, Top.pieceId, Top.start, Top.end).board
  ELSE board = performNullMove(Top.before)

====
